---- MODULE Spec2Model ----
(***************************************************************************)
(* Markdown-to-Google-Doc converter of gdrive_server.py:                   *)
(*   parse_markdown_to_doc_requests  (block scanner, running cursor)       *)
(*   process_inline_markdown         (inline bold / italic / link scan)    *)
(*                                                                         *)
(* A Python str is a sequence of one-character strings.  Python indexes    *)
(* from 0 and TLA+ sequences from 1: the loop counters i keep their Python *)
(* values, so Python's lines[i] is lines[i + 1] here.  Document indexes    *)
(* (startIndex, endIndex, current_index) are the 1-based Google Docs ones, *)
(* so document position p holds plain_text[p].                             *)
(***************************************************************************)
EXTENDS Integers, Sequences, FiniteSets, TLC

VARIABLES
    entry,            \* what runs: "parse" or "inline" (one call of that function),
                      \* "concurrent" (two calls of parse at once), "tool" (a handler)
    pc,               \* "loop" while the while-loop runs, "done" after return;
                      \* for a handler, the statement it is at
    markdown,         \* parse: the argument
    i,                \* parse: index of the next source line
    plain_text,       \* parse: the text buffer
    current_index,    \* parse: the cursor
    format_requests,  \* parse: the instruction list
    constructs,       \* parse (history): per instruction, its source line and text
    text,             \* inline: the argument
    base_index,       \* inline: the argument
    result,           \* inline: the output built so far
    inline_requests,  \* inline: its local format_requests
    inline_i,         \* inline: its local i
    calls,            \* concurrent: per invocation its argument, position and locals
    tool,             \* tool: the name of the tool called
    args,             \* tool: the arguments dict
    api_calls,        \* tool: the Drive / Docs requests executed so far, in order
    response          \* tool: the text the handler returned

vars == <<entry, pc, markdown, i, plain_text, current_index, format_requests,
          constructs, text, base_index, result, inline_requests, inline_i,
          calls, tool, args, api_calls, response>>

parse_vars == <<markdown, i, plain_text, current_index, format_requests, constructs>>
inline_vars == <<text, base_index, result, inline_requests, inline_i>>
tool_vars == <<tool, args, api_calls, response>>

----------------------------------------------------------------------------
(* Bounds of the explored inputs *)

MaxLen == 4        \* parse: characters of an enumerated markdown string
MaxLines == 3      \* parse: lines of a document built from LineSamples
MaxTokens == 4     \* inline: tokens of an enumerated line
MaxBase == 2       \* inline: largest base_index

----------------------------------------------------------------------------
(* Strings: sequences of one-character strings *)

Drop(s, n) == SubSeq(s, n + 1, Len(s))      \* Python s[n:]

RECURSIVE Flatten(_)
Flatten(ss) == IF ss = <<>> THEN <<>> ELSE Head(ss) \o Flatten(Tail(ss))

RECURSIVE Words(_, _)
\* all sequences of at most n elements of S
Words(S, n) ==
    IF n = 0 THEN {<<>>}
    ELSE LET W == Words(S, n - 1)
         IN  W \cup {Append(w, c) : w \in {v \in W : Len(v) = n - 1}, c \in S}

\* \s inside a line (a line holds no "\n"); of Unicode's further whitespace
\* characters none occurs in the inputs explored
Whitespace == {" ", "\t", "\r", "\f"}
Digits == {"0", "1", "2", "3", "4", "5", "6", "7", "8", "9"}   \* \d

RECURSIVE RunLen(_, _, _)
\* number of consecutive characters of s from position p on that are in S
RunLen(s, p, S) ==
    IF p > Len(s) \/ s[p] \notin S THEN 0 ELSE 1 + RunLen(s, p + 1, S)

RECURSIVE RunLenNot(_, _, _)
\* number of consecutive characters of s from position p on that are not c
RunLenNot(s, p, c) ==
    IF p > Len(s) \/ s[p] = c THEN 0 ELSE 1 + RunLenNot(s, p + 1, c)

HasAt(s, p, d) ==
    /\ p >= 1
    /\ p + Len(d) - 1 <= Len(s)
    /\ SubSeq(s, p, p + Len(d) - 1) = d

RECURSIVE split(_)
\* str.split('\n')
split(s) ==
    LET n == RunLenNot(s, 1, "\n")
    IN  IF n = Len(s) THEN <<s>>
        ELSE <<SubSeq(s, 1, n)>> \o split(Drop(s, n + 1))

RECURSIVE join(_)
\* '\n'.join(items)
join(items) ==
    IF items = <<>> THEN <<>>
    ELSE IF Len(items) = 1 THEN items[1]
    ELSE items[1] \o <<"\n">> \o join(Tail(items))

----------------------------------------------------------------------------
(* Line classification: the regular expressions of the block scanner *)

\* re.match(r'^(#{1,6})\s+(.+)$', line): group(1) is the run of leading '#',
\* \s+ takes the whitespace after it and gives one character back to (.+)
\* when nothing else is left.
heading_match(line) ==
    LET level == RunLen(line, 1, {"#"})
        ws == RunLen(line, level + 1, Whitespace)
    IN  IF level >= 1 /\ level <= 6 /\ ws >= 1 /\ Len(line) >= level + 2
        THEN [matched |-> TRUE, level |-> level,
              group2 |-> IF level + ws < Len(line) THEN Drop(line, level + ws)
                         ELSE Drop(line, Len(line) - 1)]
        ELSE [matched |-> FALSE, level |-> 0, group2 |-> <<>>]

\* re.match(r'^[\-\*]\s+', line)
bullet_match(line) ==
    /\ Len(line) >= 2
    /\ line[1] \in {"-", "*"}
    /\ line[2] \in Whitespace

\* re.sub(r'^[\-\*]\s+', '', line) on a line that matches
bullet_item(line) == Drop(line, 1 + RunLen(line, 2, Whitespace))

\* re.match(r'^\d+\.\s+', line)
numbered_match(line) ==
    LET d == RunLen(line, 1, Digits)
    IN  /\ d >= 1
        /\ Len(line) >= d + 2
        /\ line[d + 1] = "."
        /\ line[d + 2] \in Whitespace

\* re.sub(r'^\d+\.\s+', '', line) on a line that matches
numbered_item(line) ==
    LET d == RunLen(line, 1, Digits)
    IN  Drop(line, d + 1 + RunLen(line, d + 2, Whitespace))

----------------------------------------------------------------------------
(* Instructions: the request dicts, as records of the same shape. A `fields`
   mask, the string of comma-separated names, is the sequence of its names. *)

Range(start, end) == [startIndex |-> start, endIndex |-> end]

ParagraphStyleRequest(start, end, level) ==
    [updateParagraphStyle |->
        [range |-> Range(start, end),
         paragraphStyle |->
            [namedStyleType |-> <<"HEADING_1", "HEADING_2", "HEADING_3",
                                  "HEADING_4", "HEADING_5", "HEADING_6">>[level]],
         fields |-> <<"namedStyleType">>]]

BulletsRequest(start, end, preset) ==
    [createParagraphBullets |->
        [range |-> Range(start, end), bulletPreset |-> preset]]

\* rgbColor components in hundredths: 0.06, 0.46, 0.88
LinkColor == [red |-> 6, green |-> 46, blue |-> 88]

LinkStyleRequest(start, end, link_url) ==
    [updateTextStyle |->
        [range |-> Range(start, end),
         textStyle |-> [link |-> [url |-> link_url],
                        foregroundColor |-> [color |-> [rgbColor |-> LinkColor]]],
         fields |-> <<"link", "foregroundColor">>]]

TextStyleRequest(start, end, format_type) ==
    [updateTextStyle |->
        [range |-> Range(start, end),
         textStyle |-> IF format_type = "bold" THEN [bold |-> TRUE]
                       ELSE [italic |-> TRUE],
         fields |-> <<format_type>>]]

ReqKind(r) == CHOOSE k \in DOMAIN r : TRUE
ReqStart(r) == r[ReqKind(r)].range.startIndex
ReqEnd(r) == r[ReqKind(r)].range.endIndex

----------------------------------------------------------------------------
(* process_inline_markdown *)

\* variant: the italic patterns are tried before the bold ones
patterns_italic_first ==
    << [delim |-> <<"*">>,      format_type |-> "italic"],
       [delim |-> <<"_">>,      format_type |-> "italic"],
       [delim |-> <<"*", "*">>, format_type |-> "bold"],
       [delim |-> <<"_", "_">>, format_type |-> "bold"],
       [delim |-> <<>>,         format_type |-> "link"] >>

\* the pattern table, in the order it is tried
patterns ==
    << [delim |-> <<"*", "*">>, format_type |-> "bold"],
       [delim |-> <<"_", "_">>, format_type |-> "bold"],
       [delim |-> <<"*">>,      format_type |-> "italic"],
       [delim |-> <<"_">>,      format_type |-> "italic"],
       [delim |-> <<>>,         format_type |-> "link"] >>

NoMatch == [matched |-> FALSE, format_type |-> "", group1 |-> <<>>,
            group2 |-> <<>>, len |-> 0]

RECURSIVE LazyInnerToEnd(_, _, _)
\* variant: the end of the text closes a span that nothing else closes
LazyInnerToEnd(t, d, k) ==
    IF Len(d) + k > Len(t) THEN k - 1
    ELSE IF t[Len(d) + k] = "\n" THEN 0
    ELSE IF HasAt(t, Len(d) + k + 1, d) THEN k
    ELSE LazyInnerToEnd(t, d, k + 1)

RECURSIVE LazyInner(_, _, _)
\* d(.+?)d on t, which starts with d: the least k >= 1 such that the k
\* characters after the opening d hold no newline and the closing d follows
\* them; 0 when there is none.
LazyInner(t, d, k) ==
    IF Len(d) + k > Len(t) \/ t[Len(d) + k] = "\n" THEN 0
    ELSE IF HasAt(t, Len(d) + k + 1, d) THEN k
    ELSE LazyInner(t, d, k + 1)

\* re.match(r'\*\*(.+?)\*\*', t) and its three siblings
span_match(t, d, format_type) ==
    LET k == IF HasAt(t, 1, d) THEN LazyInner(t, d, 1) ELSE 0
    IN  IF k = 0 THEN NoMatch
        ELSE [matched |-> TRUE, format_type |-> format_type,
              group1 |-> SubSeq(t, Len(d) + 1, Len(d) + k),
              group2 |-> <<>>, len |-> 2 * Len(d) + k]

\* variant: the pattern does not ask for the opening '['
link_match_any_opener(t) ==
    LET n1 == RunLenNot(t, 2, "]")
        n2 == RunLenNot(t, n1 + 4, ")")
    IN  IF /\ Len(t) >= 1
           /\ n1 >= 1
           /\ HasAt(t, n1 + 2, <<"]", "(">>)
           /\ n2 >= 1
           /\ HasAt(t, n1 + n2 + 4, <<")">>)
        THEN [matched |-> TRUE, format_type |-> "link",
              group1 |-> SubSeq(t, 2, n1 + 1),
              group2 |-> SubSeq(t, n1 + 4, n1 + n2 + 3),
              len |-> n1 + n2 + 4]
        ELSE NoMatch

\* re.match(r'\[([^\]]+)\]\(([^)]+)\)', t)
link_match(t) ==
    LET n1 == RunLenNot(t, 2, "]")
        n2 == RunLenNot(t, n1 + 4, ")")
    IN  IF /\ HasAt(t, 1, <<"[">>)
           /\ n1 >= 1
           /\ HasAt(t, n1 + 2, <<"]", "(">>)
           /\ n2 >= 1
           /\ HasAt(t, n1 + n2 + 4, <<")">>)
        THEN [matched |-> TRUE, format_type |-> "link",
              group1 |-> SubSeq(t, 2, n1 + 1),
              group2 |-> SubSeq(t, n1 + 4, n1 + n2 + 3),
              len |-> n1 + n2 + 4]
        ELSE NoMatch

pattern_match(p, t) ==
    IF patterns[p].format_type = "link" THEN link_match(t)
    ELSE span_match(t, patterns[p].delim, patterns[p].format_type)

RECURSIVE first_match(_, _)
\* the for loop over patterns: the first pattern, from p on, that matches t
first_match(t, p) ==
    IF p > Len(patterns) THEN NoMatch
    ELSE IF pattern_match(p, t).matched THEN pattern_match(p, t)
    ELSE first_match(t, p + 1)

\* variant: every span of a line is addressed at the line's start
SpanStartAtOffset(offset, st) == offset

\* variant: the span is addressed by its position in the source line
SpanStartInSource(offset, st) == offset + st.i

\* start = offset + len(result)
SpanStart(offset, st) == offset + Len(st.result)

\* one iteration of `while i < len(text)`, on the locals
\* st = [result, format_requests, i]
inline_iteration(txt, offset, st) ==
    LET m == first_match(Drop(txt, st.i), 1)
        start == SpanStart(offset, st)
        end == start + Len(m.group1)
    IN  IF m.matched
        THEN [result |-> st.result \o m.group1,
              format_requests |->
                  Append(st.format_requests,
                         IF m.format_type = "link"
                         THEN LinkStyleRequest(start, end, m.group2)
                         ELSE TextStyleRequest(start, end, m.format_type)),
              i |-> st.i + m.len]
        ELSE [result |-> Append(st.result, txt[st.i + 1]),
              format_requests |-> st.format_requests,
              i |-> st.i + 1]

RECURSIVE inline_loop(_, _, _)
inline_loop(txt, offset, st) ==
    IF st.i < Len(txt) THEN inline_loop(txt, offset, inline_iteration(txt, offset, st))
    ELSE st

\* process_inline_markdown(text, base_index) -> (result, format_requests)
process_inline_markdown(txt, base) ==
    LET st == inline_loop(txt, base, [result |-> <<>>, format_requests |-> <<>>, i |-> 0])
    IN  [result |-> st.result, format_requests |-> st.format_requests]

RECURSIVE matched_groups(_, _)
\* the spans the scan of txt takes from k on: where each starts in txt and
\* its match.group(1)
matched_groups(txt, k) ==
    IF k >= Len(txt) THEN <<>>
    ELSE LET m == first_match(Drop(txt, k), 1)
         IN  IF m.matched
             THEN <<[col |-> k, group1 |-> m.group1]>> \o matched_groups(txt, k + m.len)
             ELSE matched_groups(txt, k + 1)

----------------------------------------------------------------------------
(* Inputs *)

\* the examples of the specification's testable properties
ExTitle ==
    <<"#", " ", "T", "i", "t", "l", "e", "\n">>
ExBullets ==
    <<"-", " ", "a", "\n", "-", " ", "b", "\n", "-", " ", "c", "\n">>
ExBold ==
    <<"h", "e", "l", "l", "o", " ", "*", "*", "w", "o", "r", "l", "d", "*", "*", "\n">>
ExLink ==
    <<"[", "d", "o", "c", "s", "]", "(", "h", "t", "t", "p", ":", "/", "/", "x", ")", "\n">>
ExUnmatched ==
    <<"a", " ", "*", "b", "\n">>
ExMixed ==
    <<"#", " ", "T", "\n", "s", "a", "y", " ", "*", "*", "h", "i", "*", "*", " ", "_", "n", "o", "w", "_", "\n", "-", " ", "a", "\n", "*", " ", "b">>
ExUnmatchedLine ==
    <<"a", " ", "*", "b">>

ExNested ==
    <<"*", "*", "_", "a", "_", "*", "*">>

Examples == {ExTitle, ExBullets, ExBold, ExLink, ExUnmatched, ExMixed}

Alphabet == {"#", " ", "-", "*", "1", ".", "a", "\n"}

LineSamples ==
    { <<>>,
      <<"#", " ", "a">>,
      <<"#", "#", "\t", "*", "b", "*">>,
      <<"-", " ", "a">>,
      <<"*", " ", "b">>,
      <<"-", " ", "*", "a", "*">>,
      <<"-", " ", " ">>,
      <<"1", ".", " ", "a">>,
      <<"a">>,
      <<"*", "b", "*">>,
      <<"*", "a", "*", " ", "*", "*", "b", "*", "*">>,
      <<"[", "a", "]", "(", "u", ")">>,
      <<"a", " ", "*", "b">> }

InlineTokens ==
    { <<"*">>,
      <<"*", "*">>,
      <<"_">>,
      <<"_", "_">>,
      <<"a">>,
      <<"[", "a">>,
      <<"]", "(">>,
      <<"u", ")">> }

\* the markdown arguments explored: every string of at most MaxLen characters
\* of Alphabet, every document of at most MaxLines lines of LineSamples, and
\* the examples
Markdowns ==
    Words(Alphabet, MaxLen)
        \cup {join(ls) : ls \in Words(LineSamples, MaxLines)}
        \cup Examples

\* the text arguments explored for a direct call of process_inline_markdown
InlineTexts ==
    {Flatten(ts) : ts \in Words(InlineTokens, MaxTokens)} \cup {ExUnmatchedLine, ExNested}

BaseIndexes == 1 .. MaxBase

----------------------------------------------------------------------------
(* parse_markdown_to_doc_requests *)

lines == split(markdown)

RECURSIVE bullet_items_with_content(_, _)
\* variant: the inner loop asks for item content, `^[\-\*]\s+.+`, unlike the
\* test that opens the run
bullet_items_with_content(ls, k) ==
    IF k < Len(ls) /\ bullet_match(ls[k + 1]) /\ Len(ls[k + 1]) >= 3
    THEN <<bullet_item(ls[k + 1])>> \o bullet_items_with_content(ls, k + 1)
    ELSE <<>>

RECURSIVE bullet_items_same_marker(_, _, _)
bullet_items_same_marker(ls, k, marker) ==
    IF k < Len(ls) /\ bullet_match(ls[k + 1]) /\ ls[k + 1][1] = marker
    THEN <<bullet_item(ls[k + 1])>> \o bullet_items_same_marker(ls, k + 1, marker)
    ELSE <<>>

\* variant: a run holds only the items that use the marker of its first line
bullet_items_of_first_marker(ls, k) == bullet_items_same_marker(ls, k, ls[k + 1][1])

RECURSIVE bullet_items(_, _)
\* the inner while loop of a bullet run, from line k on
bullet_items(ls, k) ==
    IF k < Len(ls) /\ bullet_match(ls[k + 1])
    THEN <<bullet_item(ls[k + 1])>> \o bullet_items(ls, k + 1)
    ELSE <<>>

RECURSIVE numbered_items(_, _)
\* the inner while loop of a numbered run, from line k on
numbered_items(ls, k) ==
    IF k < Len(ls) /\ numbered_match(ls[k + 1])
    THEN <<numbered_item(ls[k + 1])>> \o numbered_items(ls, k + 1)
    ELSE <<>>

\* history record of the construct behind an instruction: its source line and
\* column, its kind and the text it contributed to the buffer
Construct(k, c, kind, t) == [line |-> k, col |-> c, kind |-> kind, text |-> t]

\* variant: the heading's newline is not counted
HeadingEndNoNewline(start, heading_text) == start + Len(heading_text) - 1

\* end = start + len(heading_text)
HeadingEnd(start, heading_text) == start + Len(heading_text)

\* variant: one newline per item is counted and the trailing one added again
ListEndExtraNewline(list_start, list_text) == list_start + Len(list_text) + 1

\* list_end = list_start + len(list_text)
ListEnd(list_start, list_text) == list_start + Len(list_text)

\* variant: the paragraph's newline is not counted
ParagraphAdvanceNoNewline(cur, processed_line) == cur + Len(processed_line)

\* current_index += len(processed_line) + 1
ParagraphAdvance(cur, processed_line) == cur + Len(processed_line) + 1

\* variant: the inline instructions are put in front of the list
ExtendRequestsInFront(requests, inline_formats) == inline_formats \o requests

\* format_requests.extend(inline_formats)
ExtendRequests(requests, inline_formats) == requests \o inline_formats

\* variant: `if processed_line:`
ParagraphGuardOutputOnly(processed_line, line) == processed_line # <<>>

\* `if processed_line or line == ''`
ParagraphGuard(processed_line, line) == processed_line # <<>> \/ line = <<>>

\* variant: a heading gets no newline of its own
HeadingTextNoNewline(group2) == group2

\* variant: the heading's text goes through the inline scan
HeadingTextInline(group2) ==
    process_inline_markdown(group2, 1).result \o <<"\n">>

\* heading_text = heading_match.group(2) + '\n'
HeadingText(group2) == group2 \o <<"\n">>

\* The blocks of the loop body, each on the locals
\* st = [i, plain_text, current_index, format_requests] of one invocation
\* (and the history st.constructs), for the source lines ls.

\* `if heading_match:` ... `continue`
heading_block(ls, st) ==
    LET heading_match_ == heading_match(ls[st.i + 1])
        heading_text == HeadingText(heading_match_.group2)
        start == st.current_index
        end == HeadingEnd(start, heading_text)
    IN  [i |-> st.i + 1,
         plain_text |-> st.plain_text \o heading_text,
         current_index |-> end,
         format_requests |->
             Append(st.format_requests,
                    ParagraphStyleRequest(start, end, heading_match_.level)),
         constructs |->
             Append(st.constructs, Construct(st.i, 0, "heading", heading_text))]

\* `if re.match(r'^[\-\*]\s+', line):` ... `continue`
bullet_block(ls, st) ==
    LET list_start == st.current_index
        list_items == bullet_items(ls, st.i)
        list_text == join(list_items) \o <<"\n">>
        list_end == ListEnd(list_start, list_text)
    IN  [i |-> st.i + Len(list_items),
         plain_text |-> st.plain_text \o list_text,
         current_index |-> list_end,
         format_requests |->
             Append(st.format_requests,
                    BulletsRequest(list_start, list_end, "BULLET_DISC_CIRCLE_SQUARE")),
         constructs |->
             Append(st.constructs, Construct(st.i, 0, "bullets", list_text))]

\* `if re.match(r'^\d+\.\s+', line):` ... `continue`
numbered_block(ls, st) ==
    LET list_start == st.current_index
        list_items == numbered_items(ls, st.i)
        list_text == join(list_items) \o <<"\n">>
        list_end == ListEnd(list_start, list_text)
    IN  [i |-> st.i + Len(list_items),
         plain_text |-> st.plain_text \o list_text,
         current_index |-> list_end,
         format_requests |->
             Append(st.format_requests,
                    BulletsRequest(list_start, list_end, "NUMBERED_DECIMAL_ALPHA_ROMAN")),
         constructs |->
             Append(st.constructs, Construct(st.i, 0, "numbered", list_text))]

\* the regular paragraph, and `i += 1`
paragraph_block(ls, st) ==
    LET line == ls[st.i + 1]
        processed == process_inline_markdown(line, st.current_index)
        processed_line == processed.result
        inline_formats == processed.format_requests
        groups == matched_groups(line, 0)
    IN  IF ParagraphGuard(processed_line, line)
        THEN [i |-> st.i + 1,
              plain_text |-> st.plain_text \o processed_line \o <<"\n">>,
              current_index |-> ParagraphAdvance(st.current_index, processed_line),
              format_requests |-> ExtendRequests(st.format_requests, inline_formats),
              constructs |->
                  st.constructs \o
                      [k \in 1 .. Len(groups) |->
                          Construct(st.i, groups[k].col, "span", groups[k].group1)]]
        ELSE [st EXCEPT !.i = st.i + 1]

\* which branch of the loop body the line takes
block_kind(line) ==
    IF heading_match(line).matched THEN "heading"
    ELSE IF bullet_match(line) THEN "bullets"
    ELSE IF numbered_match(line) THEN "numbered"
    ELSE "paragraph"

\* one iteration of `while i < len(lines)`
block_iteration(ls, st) ==
    LET kind == block_kind(ls[st.i + 1])
    IN  IF kind = "heading" THEN heading_block(ls, st)
        ELSE IF kind = "bullets" THEN bullet_block(ls, st)
        ELSE IF kind = "numbered" THEN numbered_block(ls, st)
        ELSE paragraph_block(ls, st)

\* the locals before the loop
initial_locals ==
    [i |-> 0, plain_text |-> <<>>, current_index |-> 1,
     format_requests |-> <<>>, constructs |-> <<>>]

RECURSIVE parse_loop(_, _)
parse_loop(ls, st) ==
    IF st.i < Len(ls) THEN parse_loop(ls, block_iteration(ls, st)) ELSE st

\* parse_markdown_to_doc_requests(markdown) -> (plain_text, format_requests)
parse_markdown_to_doc_requests(md) ==
    LET st == parse_loop(split(md), initial_locals)
    IN  [plain_text |-> st.plain_text, format_requests |-> st.format_requests]

\* {}
EmptyDict == [k \in {} |-> k]

\* [a-zA-Z0-9_-]
IdChars ==
    { "a", "b", "c", "d", "e", "f", "g", "h", "i", "j", "k", "l", "m", 
      "n", "o", "p", "q", "r", "s", "t", "u", "v", "w", "x", "y", "z", 
      "A", "B", "C", "D", "E", "F", "G", "H", "I", "J", "K", "L", "M", 
      "N", "O", "P", "Q", "R", "S", "T", "U", "V", "W", "X", "Y", "Z", 
      "0", "1", "2", "3", "4", "5", "6", "7", "8", "9", "_", "-" }

\* validate_google_id(id_str): re.match(r'^[a-zA-Z0-9_-]{10,100}$', id_str)
\* on a non-empty string; `$` also matches before a final newline
validate_google_id(id_str) ==
    LET n == RunLen(id_str, 1, IdChars)
    IN  /\ id_str # <<>>
        /\ n >= 10
        /\ n <= 100
        /\ \/ n = Len(id_str)
           \/ n = Len(id_str) - 1 /\ id_str[Len(id_str)] = "\n"

\* args.get(k) is not None
Has(d, k) == k \in DOMAIN d

\* `if args.get(k)`: present and not empty
Truthy(d, k) == Has(d, k) /\ d[k] # <<>>

\* identifiers the handlers are called with
ValidId ==
    <<"1", "a", "B", "_", "-", "6", "7", "8", "9", "x">>
InvalidId ==
    <<"b", "a", "d", " ", "i", "d", "!">>
\* nine characters; a well-formed identifier and a newline; 100 and 101
\* characters
ShortId ==
    <<"1", "a", "B", "_", "-", "6", "7", "8", "9">>
NewlineId ==
    <<"1", "a", "B", "_", "-", "6", "7", "8", "9", "x", "\n">>
LongestId ==
    [k \in 1 .. 100 |-> "a"]
TooLongId ==
    [k \in 1 .. 101 |-> "a"]

Ids == {ValidId, InvalidId, ShortId, NewlineId, LongestId, TooLongId}

\* the documentId the Docs service gives the document it creates
NewDocId ==
    <<"D", "o", "c", "_", "4", "5", "6", "7", "8", "9">>

\* the parents the Drive service reports for the new document
PreviousParents ==
    <<"r", "o", "o", "t">>

Title ==
    <<"T">>

ToolMarkdowns == Examples \cup {<<>>}

OptionalArg(k, V) == {EmptyDict} \cup {k :> v : v \in V}

MarkdownToolArgs ==
    {("title" :> Title) @@ ("markdown" :> md) @@ f :
        md \in ToolMarkdowns,
        f \in OptionalArg("folder_id", {<<>>} \cup Ids)}

\* color_hex arguments: empty, six digits, too short to hold three components
ColorHexes ==
    { <<>>,
      <<"#", "f", "f", "0", "0", "8", "0">>,
      <<"#", "1", "A">> }

FormatToolArgs ==
    {("doc_id" :> d) @@ ("start_index" :> 1) @@ ("end_index" :> 5)
        @@ b @@ it @@ u @@ fs @@ c :
        d \in Ids,
        b \in OptionalArg("bold", BOOLEAN),
        it \in OptionalArg("italic", {TRUE}),
        u \in OptionalArg("underline", {TRUE}),
        fs \in OptionalArg("font_size", {12}),
        c \in OptionalArg("color_hex", ColorHexes)}

\* the characters of the query arguments: a letter, the single quote, the
\* backslash
QueryAlphabet == {"a", "'", "\\"}

SearchToolArgs ==
    {("query" :> q) @@ m :
        q \in Words(QueryAlphabet, MaxLen),
        m \in OptionalArg("max_results", {200})}

DeleteToolArgs ==
    {"file_id" :> f : f \in {<<>>} \cup Ids}

MoveToolArgs ==
    {("file_id" :> f) @@ ("new_folder_id" :> n) :
        f \in {<<>>} \cup Ids, n \in {<<>>} \cup Ids}

ReplaceToolArgs ==
    {("doc_id" :> d) @@ ("new_content" :> c) :
        d \in {<<>>} \cup Ids, c \in {<<>>, <<"a">>}}

\* what files().get reports as the parents of a file: the key may be absent
FileParents ==
    { EmptyDict,
      "parents" :> << <<"r", "o", "o", "t">> >>,
      "parents" :> << <<"p">>, <<"q">> >> }

\* doc['body']['content'] as documents().get reports it: the structural
\* elements with their endIndex
DocContents ==
    { << [endIndex |-> 1] >>,
      << [endIndex |-> 1], [endIndex |-> 2] >>,
      << [endIndex |-> 1], [endIndex |-> 5] >> }

AppendToolArgs ==
    {("doc_id" :> d) @@ ("text" :> <<"a">>) : d \in {<<>>} \cup Ids}

ReadDocToolArgs ==
    {"doc_id" :> d : d \in {<<>>} \cup Ids}

InsertHeadingToolArgs ==
    {("doc_id" :> d) @@ ("text" :> <<"a">>) @@ ("heading_level" :> h) @@ x @@ e :
        d \in Ids,
        h \in {0, 1, 6, 7},
        x \in OptionalArg("index", {3}),
        e \in OptionalArg("at_end", BOOLEAN)}

InsertBulletListToolArgs ==
    {("doc_id" :> d) @@ ("items" :> it) @@ n @@ x @@ e :
        d \in Ids,
        it \in {<<>>, << <<"a">>, <<"b">> >>},
        n \in OptionalArg("numbered", BOOLEAN),
        x \in OptionalArg("index", {3}),
        e \in OptionalArg("at_end", {TRUE})}

\* the chunks a download is followed for
MaxChunks == 2

ListToolArgs ==
    {f @@ q @@ m :
        f \in OptionalArg("folder_id", {<<>>} \cup Ids),
        q \in OptionalArg("query", {<<>>, <<"a", "'">>}),
        m \in OptionalArg("max_results", {600})}

ReadFileToolArgs ==
    {"file_id" :> f : f \in {<<>>} \cup Ids}

CreateFileToolArgs ==
    {("name" :> <<"n">>) @@ ("content" :> <<"a">>) @@ f :
        f \in OptionalArg("folder_id", {<<>>} \cup Ids)}

UpdateFileToolArgs ==
    {("file_id" :> f) @@ ("content" :> <<"a">>) : f \in {<<>>} \cup Ids}

CreateFolderToolArgs ==
    {("name" :> <<"n">>) @@ f : f \in OptionalArg("parent_id", {<<>>} \cup Ids)}

CopyToolArgs ==
    {("file_id" :> f) @@ n @@ d :
        f \in Ids,
        n \in OptionalArg("new_name", {<<>>, <<"n">>}),
        d \in OptionalArg("folder_id", {<<>>} \cup Ids)}

UploadToolArgs ==
    {("name" :> <<"n">>) @@ l @@ b @@ m @@ f :
        l \in OptionalArg("local_path", {<<"p">>}),
        b \in OptionalArg("base64_content",
                          {<<>>, <<"Y", "Q", "=", "=">>, <<"Y", "Q">>}),
        m \in OptionalArg("mime_type", {<<"m">>}),
        f \in OptionalArg("folder_id", {<<>>, ValidId, InvalidId})}

GoogleDocument ==
    <<"a", "p", "p", "l", "i", "c", "a", "t", "i", "o", "n", "/", "v", "n", "d", ".", "g", "o", "o", "g", "l", "e", "-", "a", "p", "p", "s", ".", "d", "o", "c", "u", "m", "e", "n", "t">>
GoogleSpreadsheet ==
    <<"a", "p", "p", "l", "i", "c", "a", "t", "i", "o", "n", "/", "v", "n", "d", ".", "g", "o", "o", "g", "l", "e", "-", "a", "p", "p", "s", ".", "s", "p", "r", "e", "a", "d", "s", "h", "e", "e", "t">>
GooglePresentation ==
    <<"a", "p", "p", "l", "i", "c", "a", "t", "i", "o", "n", "/", "v", "n", "d", ".", "g", "o", "o", "g", "l", "e", "-", "a", "p", "p", "s", ".", "p", "r", "e", "s", "e", "n", "t", "a", "t", "i", "o", "n">>
TextPlain ==
    <<"t", "e", "x", "t", "/", "p", "l", "a", "i", "n">>

\* what files().get reports of a file: the mimeType key may be absent
FileMetas ==
    {EmptyDict} \cup
    {"mimeType" :> m :
        m \in {GoogleDocument, GoogleSpreadsheet, GooglePresentation, TextPlain}}

\* the name files().get reports of a file
OriginalName ==
    <<"o">>

Tools ==
    {"markdown_to_google_doc", "format_google_doc_text", "search_files",
     "delete_file", "move_file", "replace_google_doc_content",
     "append_to_google_doc", "read_google_doc", "insert_heading",
     "insert_bullet_list", "list_files", "read_file", "create_file",
     "update_file", "create_folder", "copy_file", "upload_binary_file"}

ArgsOf(t) ==
    IF t = "format_google_doc_text" THEN FormatToolArgs
    ELSE IF t = "search_files" THEN SearchToolArgs
    ELSE IF t = "delete_file" THEN DeleteToolArgs
    ELSE IF t = "move_file" THEN MoveToolArgs
    ELSE IF t = "replace_google_doc_content" THEN ReplaceToolArgs
    ELSE IF t = "append_to_google_doc" THEN AppendToolArgs
    ELSE IF t = "read_google_doc" THEN ReadDocToolArgs
    ELSE IF t = "insert_heading" THEN InsertHeadingToolArgs
    ELSE IF t = "insert_bullet_list" THEN InsertBulletListToolArgs
    ELSE IF t = "list_files" THEN ListToolArgs
    ELSE IF t = "read_file" THEN ReadFileToolArgs
    ELSE IF t = "create_file" THEN CreateFileToolArgs
    ELSE IF t = "update_file" THEN UpdateFileToolArgs
    ELSE IF t = "create_folder" THEN CreateFolderToolArgs
    ELSE IF t = "copy_file" THEN CopyToolArgs
    ELSE IF t = "upload_binary_file" THEN UploadToolArgs
    ELSE MarkdownToolArgs

\* the markdown arguments of the two concurrent invocations
ConcurrentMarkdowns == Examples \cup {<<>>}

Invocations == {1, 2}

Init ==
    /\ entry \in {"parse", "inline", "concurrent", "tool"}
    /\ pc = IF entry = "tool" THEN "start" ELSE "loop"
    /\ markdown \in (IF entry = "parse" THEN Markdowns ELSE {<<>>})
    /\ i = 0
    /\ plain_text = <<>>
    /\ current_index = 1
    /\ format_requests = <<>>
    /\ constructs = <<>>
    /\ text \in (IF entry = "inline" THEN InlineTexts ELSE {<<>>})
    /\ base_index \in (IF entry = "inline" THEN BaseIndexes ELSE {1})
    /\ result = <<>>
    /\ inline_requests = <<>>
    /\ inline_i = 0
    /\ calls \in (IF entry = "concurrent"
                  THEN [Invocations ->
                           {[markdown |-> md, pc |-> "loop", locals |-> initial_locals] :
                               md \in ConcurrentMarkdowns}]
                  ELSE {<<>>})
    /\ tool \in (IF entry = "tool" THEN Tools ELSE {""})
    /\ args \in (IF entry = "tool" THEN ArgsOf(tool) ELSE {EmptyDict})
    /\ api_calls = <<>>
    /\ response = ""

InParseLoop == entry = "parse" /\ pc = "loop" /\ i < Len(lines)

parse_locals ==
    [i |-> i, plain_text |-> plain_text, current_index |-> current_index,
     format_requests |-> format_requests, constructs |-> constructs]

\* the invocation's locals become st
ParseStep(st) ==
    /\ i' = st.i
    /\ plain_text' = st.plain_text
    /\ current_index' = st.current_index
    /\ format_requests' = st.format_requests
    /\ constructs' = st.constructs
    /\ UNCHANGED <<entry, pc, markdown, inline_vars, calls, tool_vars>>

Heading ==
    /\ InParseLoop
    /\ block_kind(lines[i + 1]) = "heading"
    /\ ParseStep(heading_block(lines, parse_locals))

BulletRun ==
    /\ InParseLoop
    /\ block_kind(lines[i + 1]) = "bullets"
    /\ ParseStep(bullet_block(lines, parse_locals))

NumberedRun ==
    /\ InParseLoop
    /\ block_kind(lines[i + 1]) = "numbered"
    /\ ParseStep(numbered_block(lines, parse_locals))

Paragraph ==
    /\ InParseLoop
    /\ block_kind(lines[i + 1]) = "paragraph"
    /\ ParseStep(paragraph_block(lines, parse_locals))

\* `while i < len(lines)` ends: return plain_text, format_requests
Return ==
    /\ entry = "parse"
    /\ pc = "loop"
    /\ i >= Len(lines)
    /\ pc' = "done"
    /\ UNCHANGED <<entry, parse_vars, inline_vars, calls, tool_vars>>

----------------------------------------------------------------------------
(* a direct call of process_inline_markdown(text, base_index), by iteration *)

InInlineLoop == entry = "inline" /\ pc = "loop" /\ inline_i < Len(text)

inline_locals == [result |-> result, format_requests |-> inline_requests, i |-> inline_i]

InlineStep ==
    LET st == inline_iteration(text, base_index, inline_locals)
    IN  /\ result' = st.result
        /\ inline_requests' = st.format_requests
        /\ inline_i' = st.i
        /\ UNCHANGED <<entry, pc, parse_vars, text, base_index, calls, tool_vars>>

\* an iteration in which a pattern matches at text[i:]
InlineSpan ==
    /\ InInlineLoop
    /\ first_match(Drop(text, inline_i), 1).matched
    /\ InlineStep

\* an iteration in which none does: the character is copied
InlineCopy ==
    /\ InInlineLoop
    /\ ~first_match(Drop(text, inline_i), 1).matched
    /\ InlineStep

\* `while i < len(text)` ends: return result, format_requests
InlineReturn ==
    /\ entry = "inline"
    /\ pc = "loop"
    /\ inline_i >= Len(text)
    /\ pc' = "done"
    /\ UNCHANGED <<entry, parse_vars, inline_vars, calls, tool_vars>>

----------------------------------------------------------------------------
(* two invocations of parse_markdown_to_doc_requests at once: each owns its *)
(* locals, and the function reads and writes nothing else                  *)

\* variant: the cursor is a module-level global, the one invocation 1 set up
locals_with_global_cursor(cs, c) ==
    [cs[c].locals EXCEPT !.current_index = cs[1].locals.current_index]

\* the locals invocation c works on: its own
locals_of(cs, c) == cs[c].locals

\* an iteration of the block loop of invocation c
ConcurrentBlock ==
    /\ entry = "concurrent"
    /\ \E c \in Invocations :
          /\ calls[c].pc = "loop"
          /\ locals_of(calls, c).i < Len(split(calls[c].markdown))
          /\ calls' = [calls EXCEPT ![c].locals =
                          block_iteration(split(calls[c].markdown), locals_of(calls, c))]
    /\ UNCHANGED <<entry, pc, parse_vars, inline_vars, tool_vars>>

\* invocation c leaves its loop and returns
ConcurrentReturn ==
    /\ entry = "concurrent"
    /\ \E c \in Invocations :
          /\ calls[c].pc = "loop"
          /\ locals_of(calls, c).i >= Len(split(calls[c].markdown))
          /\ calls' = [calls EXCEPT ![c].pc = "done"]
    /\ UNCHANGED <<entry, pc, parse_vars, inline_vars, tool_vars>>

----------------------------------------------------------------------------
(* Tool handlers *)

AtTool(t, at) == entry = "tool" /\ tool = t /\ pc = at

\* .execute() of a request: it is recorded, and returns (ok) or raises
Execute(request, ok) == api_calls' = Append(api_calls, request @@ ("ok" :> ok))

(* markdown_to_google_doc_impl *)

\* `if folder_id and not validate_google_id(folder_id): return ...`
MarkdownValidate ==
    /\ AtTool("markdown_to_google_doc", "start")
    /\ IF Truthy(args, "folder_id") /\ ~validate_google_id(args.folder_id)
       THEN /\ response' = "Error: Invalid folder ID format"
            /\ pc' = "done"
       ELSE /\ pc' = "create"
            /\ UNCHANGED response
    /\ UNCHANGED <<entry, parse_vars, inline_vars, calls, tool, args, api_calls>>

\* doc = docs_service.documents().create(body={'title': title}).execute()
MarkdownCreate ==
    /\ AtTool("markdown_to_google_doc", "create")
    /\ \E ok \in BOOLEAN :
          /\ Execute([api |-> "docs.documents.create", body |-> [title |-> args.title]], ok)
          /\ pc' = IF ~ok THEN "raised"
                   ELSE IF Truthy(args, "folder_id") THEN "get_parents"
                   ELSE "parse"
    /\ UNCHANGED <<entry, parse_vars, inline_vars, calls, tool, args, response>>

\* file = drive_service.files().get(fileId=doc_id, fields='parents').execute()
MarkdownGetParents ==
    /\ AtTool("markdown_to_google_doc", "get_parents")
    /\ \E ok \in BOOLEAN :
          /\ Execute([api |-> "drive.files.get", fileId |-> NewDocId,
                      fields |-> "parents"], ok)
          /\ pc' = IF ok THEN "update_parents" ELSE "raised"
    /\ UNCHANGED <<entry, parse_vars, inline_vars, calls, tool, args, response>>

\* drive_service.files().update(fileId=doc_id, addParents=folder_id, ...).execute()
MarkdownUpdateParents ==
    /\ AtTool("markdown_to_google_doc", "update_parents")
    /\ \E ok \in BOOLEAN :
          /\ Execute([api |-> "drive.files.update", fileId |-> NewDocId,
                      addParents |-> args.folder_id,
                      removeParents |-> PreviousParents,
                      fields |-> "id, parents"], ok)
          /\ pc' = IF ok THEN "parse" ELSE "raised"
    /\ UNCHANGED <<entry, parse_vars, inline_vars, calls, tool, args, response>>

\* the returned pair becomes the handler's locals
Parsed(parsed) ==
    /\ plain_text' = parsed.plain_text
    /\ format_requests' = parsed.format_requests
    /\ pc' = IF parsed.plain_text # <<>> THEN "insert" ELSE "return"

\* plain_text, format_requests = parse_markdown_to_doc_requests(markdown)
\* and `if plain_text:`
MarkdownParse ==
    /\ AtTool("markdown_to_google_doc", "parse")
    /\ Parsed(parse_markdown_to_doc_requests(args.markdown))
    /\ UNCHANGED <<entry, markdown, i, current_index, constructs, inline_vars,
                   calls, tool_vars>>

\* variant: a failure of the insert is swallowed
after_insert_ignoring_failure(ok, requests) ==
    IF requests # <<>> THEN "style" ELSE "return"

\* where the handler goes after the insert: the exception of a failed insert
\* leaves the handler, `if format_requests:` guards the second batchUpdate
after_insert(ok, requests) ==
    IF ~ok THEN "raised"
    ELSE IF requests # <<>> THEN "style"
    ELSE "return"

insert_requests(plain) ==
    <<[insertText |-> [location |-> [index |-> 1], text |-> plain]]>>

\* docs_service.documents().batchUpdate(documentId=doc_id,
\*     body={'requests': insert_requests}).execute()
MarkdownInsert ==
    /\ AtTool("markdown_to_google_doc", "insert")
    /\ \E ok \in BOOLEAN :
          /\ Execute([api |-> "docs.documents.batchUpdate", documentId |-> NewDocId,
                      requests |-> insert_requests(plain_text)], ok)
          /\ pc' = after_insert(ok, format_requests)
    /\ UNCHANGED <<entry, parse_vars, inline_vars, calls, tool, args, response>>

\* docs_service.documents().batchUpdate(documentId=doc_id,
\*     body={'requests': format_requests}).execute()
MarkdownStyle ==
    /\ AtTool("markdown_to_google_doc", "style")
    /\ \E ok \in BOOLEAN :
          /\ Execute([api |-> "docs.documents.batchUpdate", documentId |-> NewDocId,
                      requests |-> format_requests], ok)
          /\ pc' = IF ok THEN "return" ELSE "raised"
    /\ UNCHANGED <<entry, parse_vars, inline_vars, calls, tool, args, response>>

\* return [TextContent(type="text", text=f"Created formatted Google Doc: ...")]
MarkdownReturn ==
    /\ AtTool("markdown_to_google_doc", "return")
    /\ response' = "Created formatted Google Doc"
    /\ pc' = "done"
    /\ UNCHANGED <<entry, parse_vars, inline_vars, calls, tool, args, api_calls>>

(* format_google_doc_text_impl *)

HexDigits ==
    <<"0", "1", "2", "3", "4", "5", "6", "7", "8", "9",
      "a", "b", "c", "d", "e", "f">>
HexUpper ==
    <<"A", "B", "C", "D", "E", "F">>

IsHexDigit(c) ==
    \/ \E v \in 1 .. Len(HexDigits) : HexDigits[v] = c
    \/ \E v \in 1 .. Len(HexUpper) : HexUpper[v] = c

HexDigitValue(c) ==
    IF \E v \in 1 .. Len(HexDigits) : HexDigits[v] = c
    THEN (CHOOSE v \in 1 .. Len(HexDigits) : HexDigits[v] = c) - 1
    ELSE (CHOOSE v \in 1 .. Len(HexUpper) : HexUpper[v] = c) + 9

RECURSIVE rstrip(_, _)
rstrip(s, S) ==
    IF s # <<>> /\ s[Len(s)] \in S THEN rstrip(SubSeq(s, 1, Len(s) - 1), S)
    ELSE s

lstrip(s, S) == Drop(s, RunLen(s, 1, S))

RECURSIVE HexNumber(_)
HexNumber(s) ==
    IF s = <<>> THEN 0
    ELSE 16 * HexNumber(SubSeq(s, 1, Len(s) - 1)) + HexDigitValue(s[Len(s)])

\* int(s, 16) of a slice s of at most two characters: surrounding whitespace
\* and a sign are accepted, then hexadecimal digits are required; ok is FALSE
\* where int raises ValueError
int16(s) ==
    LET stripped == lstrip(rstrip(s, Whitespace \cup {"\n"}), Whitespace \cup {"\n"})
        signed == stripped # <<>> /\ stripped[1] \in {"+", "-"}
        digits == IF signed THEN Tail(stripped) ELSE stripped
        ok == digits # <<>> /\ \A q \in 1 .. Len(digits) : IsHexDigit(digits[q])
    IN  [ok |-> ok,
         value |-> IF ~ok THEN 0
                   ELSE IF signed /\ stripped[1] = "-" THEN 0 - HexNumber(digits)
                   ELSE HexNumber(digits)]

\* hex_color[a:b], 0-based and end-exclusive, clipped to the string
Slice(s, a, b) ==
    SubSeq(s, a + 1, IF b < Len(s) THEN b ELSE Len(s))

\* hex_color = args['color_hex'].lstrip('#') and its three components, each
\* component c standing for the float c / 255.0
rgb(color_hex) ==
    LET hex_color == lstrip(color_hex, {"#"})
        r == int16(Slice(hex_color, 0, 2))
        g == int16(Slice(hex_color, 2, 4))
        b == int16(Slice(hex_color, 4, 6))
    IN  [ok |-> r.ok /\ g.ok /\ b.ok,
         rgbColor |-> [red |-> r.value, green |-> g.value, blue |-> b.value]]

\* text_style as the five `if` statements leave it
text_style(a) ==
    (IF Has(a, "bold") THEN "bold" :> a.bold ELSE EmptyDict)
        @@ (IF Has(a, "italic") THEN "italic" :> a.italic ELSE EmptyDict)
        @@ (IF Has(a, "underline") THEN "underline" :> a.underline ELSE EmptyDict)
        @@ (IF Has(a, "font_size")
            THEN "fontSize" :> [magnitude |-> a.font_size, unit |-> "PT"]
            ELSE EmptyDict)
        @@ (IF Truthy(a, "color_hex")
            THEN "foregroundColor" :> [color |-> [rgbColor |-> rgb(a.color_hex).rgbColor]]
            ELSE EmptyDict)

\* variant: the colour is set but not named in the mask
fields_to_update_without_color(a) ==
    (IF Has(a, "bold") THEN <<"bold">> ELSE <<>>)
        \o (IF Has(a, "italic") THEN <<"italic">> ELSE <<>>)
        \o (IF Has(a, "underline") THEN <<"underline">> ELSE <<>>)
        \o (IF Has(a, "font_size") THEN <<"fontSize">> ELSE <<>>)

\* fields_to_update as the five `if` statements leave it
fields_to_update(a) ==
    (IF Has(a, "bold") THEN <<"bold">> ELSE <<>>)
        \o (IF Has(a, "italic") THEN <<"italic">> ELSE <<>>)
        \o (IF Has(a, "underline") THEN <<"underline">> ELSE <<>>)
        \o (IF Has(a, "font_size") THEN <<"fontSize">> ELSE <<>>)
        \o (IF Truthy(a, "color_hex") THEN <<"foregroundColor">> ELSE <<>>)

\* requests = [{'updateTextStyle': {...}}]
format_text_requests(a) ==
    <<[updateTextStyle |->
          [range |-> Range(a.start_index, a.end_index),
           textStyle |-> text_style(a),
           fields |-> fields_to_update(a)]]>>

\* `if not validate_google_id(doc_id): return ...`
FormatValidate ==
    /\ AtTool("format_google_doc_text", "start")
    /\ IF ~validate_google_id(args.doc_id)
       THEN /\ response' = "Error: Invalid document ID format"
            /\ pc' = "done"
       ELSE /\ pc' = "build"
            /\ UNCHANGED response
    /\ UNCHANGED <<entry, parse_vars, inline_vars, calls, tool, args, api_calls>>

\* the five `if` statements, where int may raise, and
\* `if not fields_to_update: return ...`
FormatBuildStyle ==
    /\ AtTool("format_google_doc_text", "build")
    /\ IF Truthy(args, "color_hex") /\ ~rgb(args.color_hex).ok
       THEN /\ pc' = "raised"
            /\ UNCHANGED response
       ELSE IF fields_to_update(args) = <<>>
       THEN /\ response' = "Error: No formatting options specified"
            /\ pc' = "done"
       ELSE /\ pc' = "apply"
            /\ UNCHANGED response
    /\ UNCHANGED <<entry, parse_vars, inline_vars, calls, tool, args, api_calls>>

\* docs_service.documents().batchUpdate(documentId=doc_id,
\*     body={'requests': requests}).execute()
FormatApply ==
    /\ AtTool("format_google_doc_text", "apply")
    /\ \E ok \in BOOLEAN :
          /\ Execute([api |-> "docs.documents.batchUpdate", documentId |-> args.doc_id,
                      requests |-> format_text_requests(args)], ok)
          /\ pc' = IF ok THEN "return" ELSE "raised"
    /\ UNCHANGED <<entry, parse_vars, inline_vars, calls, tool, args, response>>

\* return [TextContent(type="text", text=f"Applied formatting to ...")]
FormatReturn ==
    /\ AtTool("format_google_doc_text", "return")
    /\ response' = "Applied formatting"
    /\ pc' = "done"
    /\ UNCHANGED <<entry, parse_vars, inline_vars, calls, tool, args, api_calls>>

(* sanitize_query_string and search_files_impl *)

RECURSIVE replace(_, _, _)
\* value.replace(old, new), old a single character
replace(value, old, new) ==
    IF value = <<>> THEN <<>>
    ELSE (IF Head(value) = old THEN new ELSE <<Head(value)>>)
             \o replace(Tail(value), old, new)

\* `if not value: return value`, else value.replace("'", "\\'")
sanitize_query_string(value) ==
    IF value = <<>> THEN value ELSE replace(value, "'", <<"\\", "'">>)

\* "name contains '"
NameContains ==
    <<"n", "a", "m", "e", " ", "c", "o", "n", "t", "a", "i", "n", "s", " ", "'">>

\* query = f"name contains '{search_term}'"
search_query(search_term) == NameContains \o search_term \o <<"'">>

\* min(args.get('max_results', 20), 100)
search_max_results(a) ==
    LET asked == IF Has(a, "max_results") THEN a.max_results ELSE 20
    IN  IF asked < 100 THEN asked ELSE 100

\* results = drive_service.files().list(q=query, pageSize=max_results,
\*     fields="files(id, name, mimeType)").execute()
SearchList ==
    /\ AtTool("search_files", "start")
    /\ \E ok \in BOOLEAN :
          /\ Execute([api |-> "drive.files.list",
                      q |-> search_query(sanitize_query_string(args.query)),
                      pageSize |-> search_max_results(args),
                      fields |-> "files(id, name, mimeType)"], ok)
          /\ pc' = IF ok THEN "return" ELSE "raised"
    /\ UNCHANGED <<entry, parse_vars, inline_vars, calls, tool, args, response>>

\* `if not files: return ...`, else the list of the files found
SearchReturn ==
    /\ AtTool("search_files", "return")
    /\ \E found \in BOOLEAN :
          response' = IF found THEN "Found file(s)"
                      ELSE "No files found matching your search"
    /\ pc' = "done"
    /\ UNCHANGED <<entry, parse_vars, inline_vars, calls, tool, args, api_calls>>

(* delete_file_impl *)

\* `if not validate_google_id(file_id): return ...`
DeleteValidate ==
    /\ AtTool("delete_file", "start")
    /\ IF ~validate_google_id(args.file_id)
       THEN /\ response' = "Error: Invalid file ID format"
            /\ pc' = "done"
       ELSE /\ pc' = "delete"
            /\ UNCHANGED response
    /\ UNCHANGED <<entry, parse_vars, inline_vars, calls, tool, args, api_calls>>

\* drive_service.files().delete(fileId=file_id).execute()
DeleteFile ==
    /\ AtTool("delete_file", "delete")
    /\ \E ok \in BOOLEAN :
          /\ Execute([api |-> "drive.files.delete", fileId |-> args.file_id], ok)
          /\ pc' = IF ok THEN "return" ELSE "raised"
    /\ UNCHANGED <<entry, parse_vars, inline_vars, calls, tool, args, response>>

\* return [TextContent(type="text", text=f"Deleted file ID: {file_id}")]
DeleteReturn ==
    /\ AtTool("delete_file", "return")
    /\ response' = "Deleted file ID"
    /\ pc' = "done"
    /\ UNCHANGED <<entry, parse_vars, inline_vars, calls, tool, args, api_calls>>

(* move_file_impl *)

\* variant: only the file's identifier is validated
move_validation_of_file_only(a) ==
    IF ~validate_google_id(a.file_id) THEN "Error: Invalid file ID format"
    ELSE ""

\* the two `if not validate_google_id(...): return ...`: the error text
\* returned, "" when both identifiers pass
move_validation(a) ==
    IF ~validate_google_id(a.file_id) THEN "Error: Invalid file ID format"
    ELSE IF ~validate_google_id(a.new_folder_id) THEN "Error: Invalid folder ID format"
    ELSE ""

MoveValidate ==
    /\ AtTool("move_file", "start")
    /\ IF move_validation(args) # ""
       THEN /\ response' = move_validation(args)
            /\ pc' = "done"
       ELSE /\ pc' = "get_parents"
            /\ UNCHANGED response
    /\ UNCHANGED <<entry, parse_vars, inline_vars, calls, tool, args, api_calls>>

\* file = drive_service.files().get(fileId=file_id, fields='parents, name')
\*     .execute(); the call is recorded with what it returned
MoveGetParents ==
    /\ AtTool("move_file", "get_parents")
    /\ \E ok \in BOOLEAN, file \in FileParents :
          /\ Execute([api |-> "drive.files.get", fileId |-> args.file_id,
                      fields |-> "parents, name", returned |-> file], ok)
          /\ pc' = IF ok THEN "update_parents" ELSE "raised"
    /\ UNCHANGED <<entry, parse_vars, inline_vars, calls, tool, args, response>>

RECURSIVE comma_join(_)
\* ",".join(items)
comma_join(items) ==
    IF items = <<>> THEN <<>>
    ELSE IF Len(items) = 1 THEN items[1]
    ELSE items[1] \o <<",">> \o comma_join(Tail(items))

\* previous_parents = ",".join(file.get('parents', []))
previous_parents(file) ==
    comma_join(IF Has(file, "parents") THEN file.parents ELSE <<>>)

\* drive_service.files().update(fileId=file_id, addParents=new_folder_id,
\*     removeParents=previous_parents, fields='id, name, parents').execute()
MoveUpdate ==
    /\ AtTool("move_file", "update_parents")
    /\ \E ok \in BOOLEAN :
          /\ Execute([api |-> "drive.files.update", fileId |-> args.file_id,
                      addParents |-> args.new_folder_id,
                      removeParents |->
                          previous_parents(api_calls[Len(api_calls)].returned),
                      fields |-> "id, name, parents"], ok)
          /\ pc' = IF ok THEN "return" ELSE "raised"
    /\ UNCHANGED <<entry, parse_vars, inline_vars, calls, tool, args, response>>

\* return [TextContent(type="text", text=f"Moved '{file['name']}' to ...")]
MoveReturn ==
    /\ AtTool("move_file", "return")
    /\ response' = "Moved"
    /\ pc' = "done"
    /\ UNCHANGED <<entry, parse_vars, inline_vars, calls, tool, args, api_calls>>

(* replace_google_doc_content_impl *)

\* `if not validate_google_id(doc_id): return ...`
ReplaceValidate ==
    /\ AtTool("replace_google_doc_content", "start")
    /\ IF ~validate_google_id(args.doc_id)
       THEN /\ response' = "Error: Invalid document ID format"
            /\ pc' = "done"
       ELSE /\ pc' = "get"
            /\ UNCHANGED response
    /\ UNCHANGED <<entry, parse_vars, inline_vars, calls, tool, args, api_calls>>

\* doc = docs_service.documents().get(documentId=doc_id).execute(); the
\* call is recorded with what it returned
ReplaceGet ==
    /\ AtTool("replace_google_doc_content", "get")
    /\ \E ok \in BOOLEAN, content \in DocContents :
          /\ Execute([api |-> "docs.documents.get", documentId |-> args.doc_id,
                      returned |-> content], ok)
          /\ pc' = IF ok THEN "update" ELSE "raised"
    /\ UNCHANGED <<entry, parse_vars, inline_vars, calls, tool, args, response>>

\* the requests of either branch of `if len(content) > 1:`
replace_requests(content, new_content) ==
    (IF Len(content) > 1 /\ content[Len(content)].endIndex - 1 > 1
     THEN <<[deleteContentRange |->
                [range |-> Range(1, content[Len(content)].endIndex - 1)]]>>
     ELSE <<>>)
        \o <<[insertText |-> [location |-> [index |-> 1], text |-> new_content]]>>

\* docs_service.documents().batchUpdate(documentId=doc_id,
\*     body={'requests': requests}).execute()
ReplaceBatchUpdate ==
    /\ AtTool("replace_google_doc_content", "update")
    /\ \E ok \in BOOLEAN :
          /\ Execute([api |-> "docs.documents.batchUpdate", documentId |-> args.doc_id,
                      requests |->
                          replace_requests(api_calls[Len(api_calls)].returned,
                                           args.new_content)], ok)
          /\ pc' = IF ok THEN "return" ELSE "raised"
    /\ UNCHANGED <<entry, parse_vars, inline_vars, calls, tool, args, response>>

\* return [TextContent(type="text", text=f"Replaced content in document ...")]
ReplaceReturn ==
    /\ AtTool("replace_google_doc_content", "return")
    /\ response' = "Replaced content in document"
    /\ pc' = "done"
    /\ UNCHANGED <<entry, parse_vars, inline_vars, calls, tool, args, api_calls>>

(* The steps the remaining handlers are made of *)

\* the tests before the first request: `return` of the error text, or on
ToolValidate(t, error, next) ==
    /\ AtTool(t, "start")
    /\ IF error # ""
       THEN /\ response' = error
            /\ pc' = "done"
       ELSE /\ pc' = next
            /\ UNCHANGED response
    /\ UNCHANGED <<entry, parse_vars, inline_vars, calls, tool, args, api_calls>>

\* one .execute(): it returns, and the handler goes on at next, or raises
ToolCall(t, at, request, next) ==
    /\ AtTool(t, at)
    /\ \E ok \in BOOLEAN :
          /\ Execute(request, ok)
          /\ pc' = IF ok THEN next ELSE "raised"
    /\ UNCHANGED <<entry, parse_vars, inline_vars, calls, tool, args, response>>

\* return [TextContent(type="text", text=...)]
ToolReturn(t, at, txt) ==
    /\ AtTool(t, at)
    /\ response' = txt
    /\ pc' = "done"
    /\ UNCHANGED <<entry, parse_vars, inline_vars, calls, tool, args, api_calls>>

\* what the last request returned
returned == api_calls[Len(api_calls)].returned

\* doc['body']['content'][-1]['endIndex'] - 1
doc_end_index(content) == content[Len(content)].endIndex - 1

\* args.get('index', 1), or the document's end `if at_end:`
insert_index(a, at_end) ==
    IF at_end THEN doc_end_index(returned)
    ELSE IF Has(a, "index") THEN a.index ELSE 1

\* args.get('at_end', False)
at_end_of(a) == Has(a, "at_end") /\ a.at_end

(* append_to_google_doc_impl *)

AppendValidate ==
    /\ entry = "tool"
    /\ ToolValidate("append_to_google_doc",
                    IF ~validate_google_id(args.doc_id)
                    THEN "Error: Invalid document ID format" ELSE "",
                    "get")

\* doc = docs_service.documents().get(documentId=doc_id).execute()
AppendGet ==
    /\ entry = "tool"
    /\ \E content \in DocContents :
           ToolCall("append_to_google_doc", "get",
                    [api |-> "docs.documents.get", documentId |-> args.doc_id,
                     returned |-> content],
                    "update")

\* the insertText at end_index, and the batchUpdate
AppendBatchUpdate ==
    /\ entry = "tool"
    /\ ToolCall("append_to_google_doc", "update",
                [api |-> "docs.documents.batchUpdate", documentId |-> args.doc_id,
                 requests |->
                     <<[insertText |-> [location |-> [index |-> doc_end_index(returned)],
                                        text |-> args.text]]>>],
                "return")

AppendReturn ==
    /\ entry = "tool"
    /\ ToolReturn("append_to_google_doc", "return", "Appended text to document")

(* read_google_doc_impl *)

ReadDocValidate ==
    /\ entry = "tool"
    /\ ToolValidate("read_google_doc",
                    IF ~validate_google_id(args.doc_id)
                    THEN "Error: Invalid document ID format" ELSE "",
                    "get")

\* doc = docs_service.documents().get(documentId=doc_id).execute()
ReadDocGet ==
    /\ entry = "tool"
    /\ \E content \in DocContents :
           ToolCall("read_google_doc", "get",
                    [api |-> "docs.documents.get", documentId |-> args.doc_id,
                     returned |-> content],
                    "return")

\* the text runs of the document, joined, under its title
ReadDocReturn ==
    /\ entry = "tool"
    /\ ToolReturn("read_google_doc", "return", "Document")

(* insert_heading_impl *)

\* the two tests before the first request
insert_heading_validation(a) ==
    IF ~validate_google_id(a.doc_id) THEN "Error: Invalid document ID format"
    ELSE IF a.heading_level < 1 \/ a.heading_level > 6
    THEN "Error: heading_level must be between 1 and 6"
    ELSE ""

InsertHeadingValidate ==
    /\ entry = "tool"
    /\ ToolValidate("insert_heading", insert_heading_validation(args),
                    IF at_end_of(args) THEN "get" ELSE "update")

\* `if at_end:` doc = docs_service.documents().get(documentId=doc_id).execute()
InsertHeadingGet ==
    /\ entry = "tool"
    /\ \E content \in DocContents :
           ToolCall("insert_heading", "get",
                    [api |-> "docs.documents.get", documentId |-> args.doc_id,
                     returned |-> content],
                    "update")

\* requests = [{'insertText': ...}, {'updateParagraphStyle': ...}]
insert_heading_requests(index, txt, heading_level) ==
    <<[insertText |-> [location |-> [index |-> index],
                       text |-> txt \o <<"\n">>]],
      ParagraphStyleRequest(index, index + Len(txt \o <<"\n">>), heading_level)>>

InsertHeadingBatchUpdate ==
    /\ entry = "tool"
    /\ ToolCall("insert_heading", "update",
                [api |-> "docs.documents.batchUpdate", documentId |-> args.doc_id,
                 requests |->
                     insert_heading_requests(insert_index(args, at_end_of(args)),
                                             args.text, args.heading_level)],
                "return")

InsertHeadingReturn ==
    /\ entry = "tool"
    /\ ToolReturn("insert_heading", "return", "Inserted heading in document")

(* insert_bullet_list_impl *)

\* the two tests before the first request
insert_bullet_list_validation(a) ==
    IF ~validate_google_id(a.doc_id) THEN "Error: Invalid document ID format"
    ELSE IF a.items = <<>> THEN "Error: No items provided"
    ELSE ""

InsertBulletListValidate ==
    /\ entry = "tool"
    /\ ToolValidate("insert_bullet_list", insert_bullet_list_validation(args),
                    IF at_end_of(args) THEN "get" ELSE "update")

\* `if at_end:` doc = docs_service.documents().get(documentId=doc_id).execute()
InsertBulletListGet ==
    /\ entry = "tool"
    /\ \E content \in DocContents :
           ToolCall("insert_bullet_list", "get",
                    [api |-> "docs.documents.get", documentId |-> args.doc_id,
                     returned |-> content],
                    "update")

\* requests = [{'insertText': ...}, {'createParagraphBullets': ...}]
insert_bullet_list_requests(index, items, numbered) ==
    <<[insertText |-> [location |-> [index |-> index],
                       text |-> join(items) \o <<"\n">>]],
      BulletsRequest(index, index + Len(join(items) \o <<"\n">>),
                     IF numbered THEN "NUMBERED_DECIMAL_ALPHA_ROMAN"
                     ELSE "BULLET_DISC_CIRCLE_SQUARE")>>

InsertBulletListBatchUpdate ==
    /\ entry = "tool"
    /\ ToolCall("insert_bullet_list", "update",
                [api |-> "docs.documents.batchUpdate", documentId |-> args.doc_id,
                 requests |->
                     insert_bullet_list_requests(insert_index(args, at_end_of(args)),
                                                 args.items,
                                                 Has(args, "numbered") /\ args.numbered)],
                "return")

InsertBulletListReturn ==
    /\ entry = "tool"
    /\ ToolReturn("insert_bullet_list", "return", "Inserted list in document")

(* list_files_impl *)

ListValidate ==
    /\ entry = "tool"
    /\ ToolValidate("list_files",
                    IF Truthy(args, "folder_id") /\ ~validate_google_id(args.folder_id)
                    THEN "Error: Invalid folder ID format" ELSE "",
                    "list")

\* " and "
And ==
    <<" ", "a", "n", "d", " ">>

\* "' in parents"
InParents ==
    <<"'", " ", "i", "n", " ", "p", "a", "r", "e", "n", "t", "s">>

\* query_parts, and " and ".join(query_parts)
list_query(a) ==
    (IF Truthy(a, "folder_id")
     THEN <<"'">> \o sanitize_query_string(a.folder_id) \o InParents
     ELSE <<>>)
        \o (IF Truthy(a, "folder_id") /\ Truthy(a, "query") THEN And ELSE <<>>)
        \o (IF Truthy(a, "query")
            THEN search_query(sanitize_query_string(a.query))
            ELSE <<>>)

\* min(args.get("max_results", 100), 500)
list_max_results(a) ==
    LET asked == IF Has(a, "max_results") THEN a.max_results ELSE 100
    IN  IF asked < 500 THEN asked ELSE 500

\* results = drive_service.files().list(q=query, pageSize=max_results,
\*     fields=...).execute(), q being None without query parts
ListList ==
    /\ entry = "tool"
    /\ ToolCall("list_files", "list",
                [api |-> "drive.files.list",
                 pageSize |-> list_max_results(args),
                 fields |-> "files(id, name, mimeType, modifiedTime, size)"]
                    @@ (IF Truthy(args, "folder_id") \/ Truthy(args, "query")
                        THEN "q" :> list_query(args) ELSE EmptyDict),
                "return")

\* `if not files: return ...`, else the list of the files
ListReturn ==
    /\ AtTool("list_files", "return")
    /\ \E found \in BOOLEAN :
          response' = IF found THEN "Files" ELSE "No files found"
    /\ pc' = "done"
    /\ UNCHANGED <<entry, parse_vars, inline_vars, calls, tool, args, api_calls>>

(* read_file_impl *)

ReadFileValidate ==
    /\ entry = "tool"
    /\ ToolValidate("read_file",
                    IF ~validate_google_id(args.file_id)
                    THEN "Error: Invalid file ID format" ELSE "",
                    "get")

\* sub in s
contains(s, sub) == \E p \in 1 .. Len(s) : HasAt(s, p, sub)

\* mime_type = file.get('mimeType', '')
mime_type_of(file) == IF Has(file, "mimeType") THEN file.mimeType ELSE <<>>

\* the download request the mime type asks for: "" where the handler returns
\* `Cannot read file type`
download_request(mime_type) ==
    IF contains(mime_type, <<"g", "o", "o", "g", "l", "e", "-", "a", "p", "p", "s">>)
    THEN IF contains(mime_type, <<"d", "o", "c", "u", "m", "e", "n", "t">>) THEN "export_media text/plain"
         ELSE IF contains(mime_type, <<"s", "p", "r", "e", "a", "d", "s", "h", "e", "e", "t">>) THEN "export_media text/csv"
         ELSE ""
    ELSE "get_media"

\* file = drive_service.files().get(fileId=file_id).execute()
ReadFileGet ==
    /\ AtTool("read_file", "get")
    /\ \E ok \in BOOLEAN, file \in FileMetas :
          /\ Execute([api |-> "drive.files.get", fileId |-> args.file_id,
                      returned |-> file], ok)
          /\ pc' = IF ~ok THEN "raised"
                   ELSE IF download_request(mime_type_of(file)) = "" THEN "unsupported"
                   ELSE "download"
    /\ UNCHANGED <<entry, parse_vars, inline_vars, calls, tool, args, response>>

\* return [TextContent(type="text", text=f"Cannot read file type: ...")]
ReadFileUnsupported ==
    /\ entry = "tool"
    /\ ToolReturn("read_file", "unsupported", "Cannot read file type")

\* `while not done: _, done = downloader.next_chunk()`: one chunk, which is
\* the last one or not
ReadFileChunk ==
    /\ AtTool("read_file", "download")
    /\ \E ok \in BOOLEAN, done \in BOOLEAN :
          /\ Len(api_calls) - 1 < MaxChunks - 1 \/ done
          /\ Execute([api |-> "media.next_chunk",
                      request |-> download_request(mime_type_of(api_calls[1].returned)),
                      fileId |-> args.file_id], ok)
          /\ pc' = IF ~ok THEN "raised"
                   ELSE IF done THEN "return"
                   ELSE "download"
    /\ UNCHANGED <<entry, parse_vars, inline_vars, calls, tool, args, response>>

\* fh.getvalue().decode('utf-8'), which fails on other bytes, and the return
ReadFileReturn ==
    /\ AtTool("read_file", "return")
    /\ \E utf8 \in BOOLEAN :
          response' = IF utf8 THEN "File"
                      ELSE "Error: File appears to be binary and cannot be displayed as text"
    /\ pc' = "done"
    /\ UNCHANGED <<entry, parse_vars, inline_vars, calls, tool, args, api_calls>>

(* create_file_impl *)

CreateFileValidate ==
    /\ entry = "tool"
    /\ ToolValidate("create_file",
                    IF Truthy(args, "folder_id") /\ ~validate_google_id(args.folder_id)
                    THEN "Error: Invalid folder ID format" ELSE "",
                    "create")

\* file_metadata: name, and parents `if args.get('folder_id')`
file_metadata(a, parent) ==
    ("name" :> a.name)
        @@ (IF Truthy(a, parent) THEN "parents" :> <<a[parent]>> ELSE EmptyDict)

\* media = MediaFileUpload(io.BytesIO(...), ...), which the library builds or
\* refuses with an exception, and drive_service.files().create(...).execute()
CreateFileCreate ==
    /\ AtTool("create_file", "create")
    /\ \E media \in BOOLEAN, ok \in BOOLEAN :
          IF ~media
          THEN /\ pc' = "raised"
               /\ UNCHANGED api_calls
          ELSE /\ Execute([api |-> "drive.files.create",
                           body |-> file_metadata(args, "folder_id"),
                           media_body |-> [content |-> args.content,
                                           mimetype |-> "text/plain"],
                           fields |-> "id, name, webViewLink"], ok)
               /\ pc' = IF ok THEN "return" ELSE "raised"
    /\ UNCHANGED <<entry, parse_vars, inline_vars, calls, tool, args, response>>

CreateFileReturn ==
    /\ entry = "tool"
    /\ ToolReturn("create_file", "return", "Created file")

(* update_file_impl *)

UpdateFileValidate ==
    /\ entry = "tool"
    /\ ToolValidate("update_file",
                    IF ~validate_google_id(args.file_id)
                    THEN "Error: Invalid file ID format" ELSE "",
                    "update")

\* media = MediaFileUpload(io.BytesIO(...), ...), which the library builds or
\* refuses with an exception, and drive_service.files().update(...).execute()
UpdateFileUpdate ==
    /\ AtTool("update_file", "update")
    /\ \E media \in BOOLEAN, ok \in BOOLEAN :
          IF ~media
          THEN /\ pc' = "raised"
               /\ UNCHANGED api_calls
          ELSE /\ Execute([api |-> "drive.files.update", fileId |-> args.file_id,
                           media_body |-> [content |-> args.content,
                                           mimetype |-> "text/plain"]], ok)
               /\ pc' = IF ok THEN "return" ELSE "raised"
    /\ UNCHANGED <<entry, parse_vars, inline_vars, calls, tool, args, response>>

UpdateFileReturn ==
    /\ entry = "tool"
    /\ ToolReturn("update_file", "return", "Updated file ID")

(* create_folder_impl *)

CreateFolderValidate ==
    /\ entry = "tool"
    /\ ToolValidate("create_folder",
                    IF Truthy(args, "parent_id") /\ ~validate_google_id(args.parent_id)
                    THEN "Error: Invalid parent folder ID format" ELSE "",
                    "create")

\* folder = drive_service.files().create(body=file_metadata, fields='id, name')
\*     .execute()
CreateFolderCreate ==
    /\ entry = "tool"
    /\ ToolCall("create_folder", "create",
                [api |-> "drive.files.create",
                 body |-> file_metadata(args, "parent_id")
                              @@ ("mimeType" :> "application/vnd.google-apps.folder"),
                 fields |-> "id, name"],
                "return")

CreateFolderReturn ==
    /\ entry = "tool"
    /\ ToolReturn("create_folder", "return", "Created folder")

(* copy_file_impl *)

\* the two tests before the first request
copy_validation(a) ==
    IF ~validate_google_id(a.file_id) THEN "Error: Invalid file ID format"
    ELSE IF Truthy(a, "folder_id") /\ ~validate_google_id(a.folder_id)
    THEN "Error: Invalid folder ID format"
    ELSE ""

CopyValidate ==
    /\ entry = "tool"
    /\ ToolValidate("copy_file", copy_validation(args),
                    IF Truthy(args, "new_name") THEN "copy" ELSE "get_name")

\* original = drive_service.files().get(fileId=file_id, fields='name').execute()
CopyGetName ==
    /\ entry = "tool"
    /\ ToolCall("copy_file", "get_name",
                [api |-> "drive.files.get", fileId |-> args.file_id,
                 fields |-> "name", returned |-> [name |-> OriginalName]],
                "copy")

\* "Copy of "
CopyOf ==
    <<"C", "o", "p", "y", " ", "o", "f", " ">>

\* body = {'name': new_name}, and parents `if folder_id:`
copy_body(a, new_name) ==
    ("name" :> new_name)
        @@ (IF Truthy(a, "folder_id") THEN "parents" :> <<a.folder_id>>
            ELSE EmptyDict)

\* copied_file = drive_service.files().copy(fileId=file_id, body=body,
\*     fields='id, name, webViewLink').execute()
CopyCopy ==
    /\ entry = "tool"
    /\ ToolCall("copy_file", "copy",
                [api |-> "drive.files.copy", fileId |-> args.file_id,
                 body |-> copy_body(args,
                                    IF Truthy(args, "new_name") THEN args.new_name
                                    ELSE CopyOf \o returned.name),
                 fields |-> "id, name, webViewLink"],
                "return")

CopyReturn ==
    /\ entry = "tool"
    /\ ToolReturn("copy_file", "return", "Copied file")

(* upload_binary_file_impl *)

\* the characters of the base64 alphabet
Base64Chars == (IdChars \ {"_", "-"}) \cup {"+", "/"}

RECURSIVE b64decode_ok(_, _, _, _)
\* base64.b64decode(s) returns (TRUE) or raises: characters outside the
\* alphabet are skipped, a complete padding ends the data, and the data must
\* end on a group of four
b64decode_ok(s, p, quad, pads) ==
    IF p > Len(s) THEN quad = 0
    ELSE IF s[p] = "="
    THEN IF quad >= 2 /\ quad + pads + 1 >= 4 THEN TRUE
         ELSE b64decode_ok(s, p + 1, quad, IF quad >= 2 THEN pads + 1 ELSE pads)
    ELSE IF s[p] \in Base64Chars
    THEN b64decode_ok(s, p + 1, (quad + 1) % 4, 0)
    ELSE b64decode_ok(s, p + 1, quad, pads)

\* the tests before anything is read or sent
upload_validation(a) ==
    IF Truthy(a, "folder_id") /\ ~validate_google_id(a.folder_id)
    THEN "Error: Invalid folder ID format"
    ELSE IF ~Truthy(a, "local_path") /\ ~Truthy(a, "base64_content")
    THEN "Error: Must provide either local_path or base64_content"
    ELSE ""

UploadValidate ==
    /\ entry = "tool"
    /\ ToolValidate("upload_binary_file", upload_validation(args), "create")

\* the error text with which the preparation of the media returns, "" when
\* there is none: the path exists or not; mime_type and the base64 content
upload_preparation(a, exists) ==
    IF Truthy(a, "local_path")
    THEN IF ~exists THEN "Error: File not found" ELSE ""
    ELSE IF ~Truthy(a, "mime_type")
    THEN "Error: mime_type is required when using base64_content"
    ELSE IF ~b64decode_ok(a.base64_content, 1, 0, 0)
    THEN "Error: Invalid base64 content"
    ELSE ""

\* the mime type of the media: the argument, else the guess, else
\* application/octet-stream
upload_mime_type(a, guessed) ==
    IF Truthy(a, "mime_type") THEN a.mime_type
    ELSE IF guessed THEN <<"g">>
    ELSE <<"a", "p", "p", "l", "i", "c", "a", "t", "i", "o", "n", "/", "o", "c", "t", "e", "t", "-", "s", "t", "r", "e", "a", "m">>

\* the media is prepared, MediaFileUpload builds it or raises, and
\* drive_service.files().create(body=file_metadata, media_body=media,
\*     fields=...).execute()
UploadCreate ==
    /\ AtTool("upload_binary_file", "create")
    /\ \E exists \in BOOLEAN, guessed \in BOOLEAN, media \in BOOLEAN, ok \in BOOLEAN :
          IF upload_preparation(args, exists) # ""
          THEN /\ response' = upload_preparation(args, exists)
               /\ pc' = "done"
               /\ UNCHANGED api_calls
          ELSE IF ~media
          THEN /\ pc' = "raised"
               /\ UNCHANGED <<api_calls, response>>
          ELSE /\ Execute([api |-> "drive.files.create",
                           body |-> file_metadata(args, "folder_id"),
                           media_body |-> [mimetype |-> upload_mime_type(args, guessed)],
                           fields |-> "id, name, webViewLink, mimeType"], ok)
               /\ pc' = IF ok THEN "return" ELSE "raised"
               /\ UNCHANGED response
    /\ UNCHANGED <<entry, parse_vars, inline_vars, calls, tool, args>>

UploadReturn ==
    /\ entry = "tool"
    /\ ToolReturn("upload_binary_file", "return", "Uploaded")

\* call_tool: an exception of the handler is caught and reported as text
ToolRaised ==
    /\ entry = "tool"
    /\ pc = "raised"
    /\ response' = "Error: exception"
    /\ pc' = "done"
    /\ UNCHANGED <<entry, parse_vars, inline_vars, calls, tool, args, api_calls>>

----------------------------------------------------------------------------

Next ==
    \/ Heading
    \/ BulletRun
    \/ NumberedRun
    \/ Paragraph
    \/ Return
    \/ InlineSpan
    \/ InlineCopy
    \/ InlineReturn
    \/ ConcurrentBlock
    \/ ConcurrentReturn
    \/ MarkdownValidate
    \/ MarkdownCreate
    \/ MarkdownGetParents
    \/ MarkdownUpdateParents
    \/ MarkdownParse
    \/ MarkdownInsert
    \/ MarkdownStyle
    \/ MarkdownReturn
    \/ FormatValidate
    \/ FormatBuildStyle
    \/ FormatApply
    \/ FormatReturn
    \/ SearchList
    \/ SearchReturn
    \/ DeleteValidate
    \/ DeleteFile
    \/ DeleteReturn
    \/ MoveValidate
    \/ MoveGetParents
    \/ MoveUpdate
    \/ MoveReturn
    \/ ReplaceValidate
    \/ ReplaceGet
    \/ ReplaceBatchUpdate
    \/ ReplaceReturn
    \/ AppendValidate
    \/ AppendGet
    \/ AppendBatchUpdate
    \/ AppendReturn
    \/ ReadDocValidate
    \/ ReadDocGet
    \/ ReadDocReturn
    \/ InsertHeadingValidate
    \/ InsertHeadingGet
    \/ InsertHeadingBatchUpdate
    \/ InsertHeadingReturn
    \/ InsertBulletListValidate
    \/ InsertBulletListGet
    \/ InsertBulletListBatchUpdate
    \/ InsertBulletListReturn
    \/ ListValidate
    \/ ListList
    \/ ListReturn
    \/ ReadFileValidate
    \/ ReadFileGet
    \/ ReadFileUnsupported
    \/ ReadFileChunk
    \/ ReadFileReturn
    \/ CreateFileValidate
    \/ CreateFileCreate
    \/ CreateFileReturn
    \/ UpdateFileValidate
    \/ UpdateFileUpdate
    \/ UpdateFileReturn
    \/ CreateFolderValidate
    \/ CreateFolderCreate
    \/ CreateFolderReturn
    \/ CopyValidate
    \/ CopyGetName
    \/ CopyCopy
    \/ CopyReturn
    \/ UploadValidate
    \/ UploadCreate
    \/ UploadReturn
    \/ ToolRaised

Spec == Init /\ [][Next]_vars

----------------------------------------------------------------------------
(* Properties *)

Returned == entry = "parse" /\ pc = "done"
InlineReturned == entry = "inline" /\ pc = "done"

Requests == 1 .. Len(format_requests)

\* the characters of the buffer at document positions [start, end)
Addressed(r) == SubSeq(plain_text, ReqStart(r), ReqEnd(r) - 1)

\* C1: the cursor starts at 1 and after every processed block cursor - 1 is
\* the length of the buffer built so far, so each block advances the cursor by
\* the length of the text it appended and the returned text has
\* len(plainText) = cursor_final - 1.
LengthCursorInvariant ==
    entry = "parse" => current_index - 1 = Len(plain_text)

\* a mixed document (heading, paragraph with spans, bullet run) was processed
LengthCursorWitness ==
    /\ Returned
    /\ markdown = ExMixed
    /\ current_index > 10

\* C2: every returned instruction has
\* 1 <= startIndex <= endIndex <= len(plainText) + 1.
RangeContainment ==
    Returned =>
        \A k \in Requests :
            /\ 1 <= ReqStart(format_requests[k])
            /\ ReqStart(format_requests[k]) <= ReqEnd(format_requests[k])
            /\ ReqEnd(format_requests[k]) <= Len(plain_text) + 1

\* several instructions were returned and one of them ends at the upper limit
RangeContainmentWitness ==
    /\ Returned
    /\ Len(format_requests) >= 2
    /\ \E k \in Requests : ReqEnd(format_requests[k]) = Len(plain_text) + 1

KindOfRequest(r) ==
    IF ReqKind(r) = "updateParagraphStyle" THEN {"heading"}
    ELSE IF ReqKind(r) = "createParagraphBullets" THEN {"bullets", "numbered"}
    ELSE {"span"}

\* C3: the characters of the returned text at [startIndex, endIndex) of an
\* instruction are the text of the construct that produced it: the inner text
\* of the span (updateTextStyle), the heading text and its newline
\* (updateParagraphStyle), the items joined by newlines and the trailing
\* newline (createParagraphBullets).
AddressesConstructText ==
    Returned =>
        /\ Len(constructs) = Len(format_requests)
        /\ \A k \in Requests :
            /\ constructs[k].kind \in KindOfRequest(format_requests[k])
            /\ ReqStart(format_requests[k]) >= 1
            /\ ReqEnd(format_requests[k]) <= Len(plain_text) + 1
            /\ Addressed(format_requests[k]) = constructs[k].text

\* a document with a heading, a span that follows another span of its line,
\* and a list run was converted
AddressesConstructTextWitness ==
    /\ Returned
    /\ \E k \in Requests : constructs[k].kind = "heading"
    /\ \E k \in Requests : constructs[k].kind \in {"bullets", "numbered"}
    /\ \E j, k \in Requests :
          /\ j < k
          /\ constructs[j].kind = "span"
          /\ constructs[k].kind = "span"
          /\ constructs[j].line = constructs[k].line

\* C4: the instructions are listed in the order of their source constructs
\* (by line, and by column within a line), and startIndex never decreases
\* along the list.
OrderPreservation ==
    Returned =>
        \A k \in Requests :
            k < Len(format_requests) =>
                /\ ReqStart(format_requests[k]) <= ReqStart(format_requests[k + 1])
                /\ \/ constructs[k].line < constructs[k + 1].line
                   \/ /\ constructs[k].line = constructs[k + 1].line
                      /\ constructs[k].col < constructs[k + 1].col

\* a block instruction is followed by the instructions of a later paragraph
OrderPreservationWitness ==
    /\ Returned
    /\ \E j, k \in Requests :
          /\ j < k
          /\ constructs[j].kind # "span"
          /\ constructs[k].kind = "span"

\* C5: the empty markdown string yields empty plain text and an empty
\* instruction list.
EmptyInputYieldsEmptyText ==
    (Returned /\ markdown = <<>>) =>
        /\ plain_text = <<>>
        /\ format_requests = <<>>

\* C6: "# Title\n" yields "Title\n" and exactly one updateParagraphStyle
\* instruction over [1,7) with HEADING_1.
HeadingRoundTrip ==
    (Returned /\ markdown = ExTitle) =>
        /\ plain_text = <<"T", "i", "t", "l", "e", "\n">>
        /\ format_requests = <<ParagraphStyleRequest(1, 7, 1)>>

\* C7: "- a\n- b\n- c\n" yields "a\nb\nc\n" and exactly one
\* createParagraphBullets instruction over [1,7) with the unordered preset.
BulletRunMerge ==
    (Returned /\ markdown = ExBullets) =>
        /\ plain_text = <<"a", "\n", "b", "\n", "c", "\n">>
        /\ format_requests = <<BulletsRequest(1, 7, "BULLET_DISC_CIRCLE_SQUARE")>>

\* C8: "hello **world**\n" yields "hello world\n" and exactly one
\* updateTextStyle instruction with bold = true over [7,12).
InlineBold ==
    (Returned /\ markdown = ExBold) =>
        /\ plain_text = <<"h", "e", "l", "l", "o", " ", "w", "o", "r", "l", "d", "\n">>
        /\ format_requests = <<TextStyleRequest(7, 12, "bold")>>

\* C9: "[docs](http://x)\n" yields "docs\n" and exactly one updateTextStyle
\* instruction over [1,5) with the link target http://x and the accent color.
LinkSpan ==
    (Returned /\ markdown = ExLink) =>
        /\ plain_text = <<"d", "o", "c", "s", "\n">>
        /\ format_requests =
               <<LinkStyleRequest(1, 5, <<"h", "t", "t", "p", ":", "/", "/", "x">>)>>

Occurrences(t, d) == {p \in 1 .. Len(t) : HasAt(t, p, d)}

\* t holds an opening d that no closing d follows
Unterminated(t, d) ==
    /\ Occurrences(t, d) # {}
    /\ LET open == CHOOSE p \in Occurrences(t, d) :
                       \A q \in Occurrences(t, d) : p <= q
       IN  \A q \in Occurrences(t, d) : q < open + Len(d)

HasChar(t, c) == \E p \in 1 .. Len(t) : t[p] = c

\* C10 as stated: a line whose opening delimiter has no matching closing
\* delimiter (here: its only markup characters are '*', with an opening `**`
\* and no closing `**`) is returned unchanged with no instruction.
UnterminatedIsVerbatim ==
    (/\ InlineReturned
     /\ Unterminated(text, <<"*", "*">>)
     /\ ~HasChar(text, "_")
     /\ ~HasChar(text, "[")) =>
        /\ result = text
        /\ inline_requests = <<>>

\* no two occurrences of the character c in t have a character between them
NoPair(t, c) ==
    \A p, q \in 1 .. Len(t) : (t[p] = c /\ t[q] = c) => q < p + 2

\* no opening delimiter of t can be closed: no '*' ... '*' and no '_' ... '_'
\* around at least one character, and no "](" of a link
NoClosing(t) ==
    /\ NoPair(t, "*")
    /\ NoPair(t, "_")
    /\ Occurrences(t, <<"]", "(">>) = {}

\* C10 as amended: a line in which no opening delimiter has a closing one
\* (no '*' ... '*' and no '_' ... '_' around at least one character, no "](")
\* is returned unchanged with no instruction.
NoClosingIsVerbatim ==
    (InlineReturned /\ NoClosing(text)) =>
        /\ result = text
        /\ inline_requests = <<>>

\* a line that opens with `**`, never closed, was returned
NoClosingIsVerbatimWitness ==
    /\ InlineReturned
    /\ HasAt(text, 1, <<"*", "*">>)
    /\ Len(text) >= 3
    /\ NoClosing(text)

HasMarker(t) == \E p \in 1 .. Len(t) : t[p] \in {"*", "_", "["}

\* C11: a text with none of '*', '_', '[' is returned unchanged by
\* process_inline_markdown, with an empty instruction list, for every base
\* index.
PlainTextIsFixedPoint ==
    (InlineReturned /\ ~HasMarker(text)) =>
        /\ result = text
        /\ inline_requests = <<>>

\* a marker-free text of several characters was formatted at a base index
\* other than 1
PlainTextIsFixedPointWitness ==
    /\ InlineReturned
    /\ ~HasMarker(text)
    /\ Len(text) >= 3
    /\ base_index > 1

\* C12: both loops make progress and stay inside their input, so both
\* functions terminate and return for every input: an iteration of the block
\* loop consumes at least one source line, an iteration of the inline loop at
\* least one character.
LoopProgress ==
    [][(pc = "loop" /\ pc' = "loop") =>
          /\ entry = "parse" => (i < i' /\ i' <= Len(lines))
          /\ entry = "inline" => (inline_i < inline_i' /\ inline_i' <= Len(text))]_vars

\* a parse of at least three lines, one of them a paragraph with a span,
\* has returned
LoopProgressWitness ==
    /\ Returned
    /\ i = Len(lines)
    /\ Len(lines) >= 3
    /\ \E k \in Requests : constructs[k].kind = "span" /\ constructs[k].col > 0

\* C14: the invocations share no state: in every interleaving of the
\* iterations of two invocations, each returns what it returns alone.
ConcurrentCallsIndependent ==
    entry = "concurrent" =>
        \A c \in Invocations :
            calls[c].pc = "done" =>
                [plain_text |-> calls[c].locals.plain_text,
                 format_requests |-> calls[c].locals.format_requests]
                    = parse_markdown_to_doc_requests(calls[c].markdown)

\* both invocations have returned, on different documents that each gave
\* instructions
ConcurrentCallsIndependentWitness ==
    /\ entry = "concurrent"
    /\ \A c \in Invocations :
          /\ calls[c].pc = "done"
          /\ calls[c].locals.format_requests # <<>>
    /\ calls[1].markdown # calls[2].markdown

IsInsert(c) ==
    /\ c.api = "docs.documents.batchUpdate"
    /\ c.requests # <<>>
    /\ "insertText" \in DOMAIN c.requests[1]

IsStyling(c) == c.api = "docs.documents.batchUpdate" /\ ~IsInsert(c)

Inserts == {k \in 1 .. Len(api_calls) : IsInsert(api_calls[k])}
Stylings == {k \in 1 .. Len(api_calls) : IsStyling(api_calls[k])}

\* C13: markdown_to_google_doc submits the styling batchUpdate only after the
\* single insertText batchUpdate, at index 1 of the document just created,
\* has returned successfully; the styling batch is the instruction list of
\* the converter, unchanged; no styling batch is submitted when the insert
\* failed or the plain text or the instruction list is empty.
InsertBeforeStyle ==
    (entry = "tool" /\ tool = "markdown_to_google_doc") =>
        LET parsed == parse_markdown_to_doc_requests(args.markdown)
        IN  /\ Cardinality(Inserts) <= 1
            /\ Cardinality(Stylings) <= 1
            /\ \A k \in Inserts :
                  /\ api_calls[k].requests = insert_requests(parsed.plain_text)
                  /\ api_calls[k].documentId = NewDocId
                  /\ api_calls[1].api = "docs.documents.create" /\ api_calls[1].ok
            /\ \A k \in Stylings :
                  /\ \E j \in Inserts : j < k /\ api_calls[j].ok
                  /\ api_calls[k].requests = parsed.format_requests
                  /\ api_calls[k].documentId = NewDocId
            /\ (\/ parsed.plain_text = <<>>
                \/ parsed.format_requests = <<>>
                \/ \E j \in Inserts : ~api_calls[j].ok) => Stylings = {}

\* the handler has returned after a successful insert and styling batch
InsertBeforeStyleWitness ==
    /\ AtTool("markdown_to_google_doc", "done")
    /\ Stylings # {}
    /\ \A k \in 1 .. Len(api_calls) : api_calls[k].ok
    /\ Len(api_calls[Len(api_calls)].requests) >= 2

ListItem(kind, line) ==
    IF kind = "bullets" THEN bullet_match(line) ELSE numbered_match(line)

\* C15: a list run takes the current line and exactly the lines after it that
\* match the same list pattern, '-' and '*' alike, up to the first line that
\* does not; it appends exactly one createParagraphBullets instruction, over
\* the text of the whole run; no heading line is taken into a run.
MaximalListRuns ==
    [][(InParseLoop /\ block_kind(lines[i + 1]) \in {"bullets", "numbered"}) =>
          LET kind == block_kind(lines[i + 1])
              last == format_requests'[Len(format_requests')]
          IN  /\ i < i' /\ i' <= Len(lines)
              /\ \A k \in (i + 1) .. i' :
                    ListItem(kind, lines[k]) /\ ~heading_match(lines[k]).matched
              /\ i' < Len(lines) => ~ListItem(kind, lines[i' + 1])
              /\ Len(format_requests') = Len(format_requests) + 1
              /\ ReqKind(last) = "createParagraphBullets"
              /\ ReqStart(last) = Len(plain_text) + 1
              /\ ReqEnd(last) = Len(plain_text') + 1
              /\ Len(split(SubSeq(plain_text', Len(plain_text) + 1, Len(plain_text'))))
                     = (i' - i) + 1]_vars

\* a run of a '-' item and a '*' item was taken as one, and a line that is no
\* item follows it
MaximalListRunsWitness ==
    /\ entry = "parse"
    /\ i >= 2
    /\ i < Len(lines)
    /\ constructs # <<>>
    /\ LET c == constructs[Len(constructs)]
       IN  /\ c.kind = "bullets"
           /\ c.line = i - 2
           /\ lines[i - 1][1] # lines[i][1]

\* ^[-*]\s+.+ and ^\d+\.\s+.+ : the list patterns with item content
BulletWithContent(line) == bullet_match(line) /\ Len(line) >= 3
NumberedWithContent(line) ==
    numbered_match(line) /\ Len(line) >= RunLen(line, 1, Digits) + 3

\* how an iteration of the block loop treated its line, as its effect shows
TakenAsList ==
    IF Len(format_requests') = Len(format_requests) + 1
       /\ ReqKind(format_requests'[Len(format_requests')]) = "createParagraphBullets"
    THEN format_requests'[Len(format_requests')].createParagraphBullets.bulletPreset
    ELSE "none"

\* C16: a line is taken as a bullet item exactly when it matches ^[-*]\s+.+
\* and as a numbered item exactly when it matches ^\d+\.\s+.+ ; a marker
\* followed by a single whitespace character and nothing else is processed as
\* a paragraph.
ListItemsRequireContent ==
    [][InParseLoop =>
          /\ TakenAsList = "BULLET_DISC_CIRCLE_SQUARE" <=> BulletWithContent(lines[i + 1])
          /\ TakenAsList = "NUMBERED_DECIMAL_ALPHA_ROMAN"
                <=> NumberedWithContent(lines[i + 1])]_vars

\* C17: every line that is neither a heading nor a list item, blank or not,
\* appends the formatter's text for it and one newline and advances the
\* cursor by as much; a blank line gives exactly one newline and no
\* instruction; the formatter's text is non-empty for a non-empty line.
NoParagraphSkipped ==
    [][(InParseLoop /\ block_kind(lines[i + 1]) = "paragraph") =>
          LET line == lines[i + 1]
              out == process_inline_markdown(line, current_index)
          IN  /\ i' = i + 1
              /\ plain_text' = plain_text \o out.result \o <<"\n">>
              /\ current_index' = current_index + Len(out.result) + 1
              /\ line # <<>> => out.result # <<>>
              /\ line = <<>> =>
                    /\ plain_text' = Append(plain_text, "\n")
                    /\ format_requests' = format_requests]_vars

\* a blank line between two other lines was processed
NoParagraphSkippedWitness ==
    /\ entry = "parse"
    /\ i >= 2
    /\ i < Len(lines)
    /\ lines[i] = <<>>
    /\ lines[i - 1] # <<>>
    /\ HasAt(plain_text, Len(plain_text) - 1, <<"\n", "\n">>)

\* the inner lengths k >= 1 with which d, k characters of one line, d opens t
Inners(t, d) ==
    {k \in 1 .. Len(t) :
        /\ HasAt(t, Len(d) + k + 1, d)
        /\ \A q \in 1 .. k : t[Len(d) + q] # "\n"}

Closed(t, d) == HasAt(t, 1, d) /\ Inners(t, d) # {}

Least(S) == CHOOSE k \in S : \A j \in S : k <= j

\* the lengths <<a, b>> with which [text](url), text of a and url of b
\* characters, opens t
LinkParts(t) ==
    {ab \in (1 .. Len(t)) \X (1 .. Len(t)) :
        /\ HasAt(t, 1, <<"[">>)
        /\ HasAt(t, ab[1] + ab[2] + 4, <<")">>)
        /\ HasAt(t, ab[1] + 2, <<"]", "(">>)
        /\ \A q \in 2 .. (ab[1] + 1) : t[q] # "]"
        /\ \A q \in (ab[1] + 4) .. (ab[1] + ab[2] + 3) : t[q] # ")"}

\* the order of the claim: bold `**`, bold `__`, italic `*`, italic `_`
ClaimedOrder ==
    << [delim |-> <<"*", "*">>, style |-> "bold"],
       [delim |-> <<"_", "_">>, style |-> "bold"],
       [delim |-> <<"*">>,      style |-> "italic"],
       [delim |-> <<"_">>,      style |-> "italic"] >>

FirstClosed(t) ==
    LET S == {p \in 1 .. Len(ClaimedOrder) : Closed(t, ClaimedOrder[p].delim)}
    IN  IF S = {} THEN 0 ELSE Least(S)

\* C18: at each scan position the first pattern that matches there, in the
\* order bold `**x**`, bold `__x__`, italic `*x*`, italic `_x_`, link, is
\* taken; its inner text is appended as it stands, without a rescan; one
\* instruction is appended and the scan resumes right after the span;
\* otherwise the character is copied.
FirstMatchWins ==
    [][InInlineLoop =>
          LET t == Drop(text, inline_i)
              p == FirstClosed(t)
              start == base_index + Len(result)
          IN  IF p > 0
              THEN LET d == ClaimedOrder[p].delim
                       k == Least(Inners(t, d))
                   IN  /\ result' = result \o SubSeq(t, Len(d) + 1, Len(d) + k)
                       /\ inline_i' = inline_i + 2 * Len(d) + k
                       /\ inline_requests' =
                              Append(inline_requests,
                                     TextStyleRequest(start, start + k,
                                                      ClaimedOrder[p].style))
              ELSE IF LinkParts(t) # {}
              THEN LET ab == CHOOSE x \in LinkParts(t) : TRUE
                   IN  /\ result' = result \o SubSeq(t, 2, ab[1] + 1)
                       /\ inline_i' = inline_i + ab[1] + ab[2] + 4
                       /\ inline_requests' =
                              Append(inline_requests,
                                     LinkStyleRequest(start, start + ab[1],
                                         SubSeq(t, ab[1] + 4, ab[1] + ab[2] + 3)))
              ELSE /\ result' = Append(result, t[1])
                   /\ inline_i' = inline_i + 1
                   /\ inline_requests' = inline_requests]_vars

\* `**_a_**` was returned as `_a_` with one bold instruction and no italic one
FirstMatchWinsWitness ==
    /\ InlineReturned
    /\ text = ExNested
    /\ result = <<"_", "a", "_">>
    /\ inline_requests = <<TextStyleRequest(base_index, base_index + 3, "bold")>>

\* what one step of the loop appended to the buffer and to the instructions
AppendedText == SubSeq(plain_text', Len(plain_text) + 1, Len(plain_text'))
AppendedRequests ==
    SubSeq(format_requests', Len(format_requests) + 1, Len(format_requests'))

\* t is s without a prefix made of characters of S
SuffixAfter(s, S, t) ==
    \E n \in 1 .. Len(s) :
        /\ \A q \in 1 .. n : s[q] \in S
        /\ t = Drop(s, n)

\* C19: a heading line and a list run contribute their text as it stands in
\* the source after the marker, inline markup included, and one instruction
\* that is not an updateTextStyle; a step that appends an updateTextStyle is
\* the step of a paragraph line.
InlineOnlyInParagraphs ==
    [][InParseLoop =>
          LET line == lines[i + 1]
              kind == block_kind(line)
          IN  /\ kind = "heading" =>
                    /\ Len(AppendedRequests) = 1
                    /\ ReqKind(AppendedRequests[1]) = "updateParagraphStyle"
                    /\ i' = i + 1
                    /\ \E t \in {SubSeq(AppendedText, 1, Len(AppendedText) - 1)} :
                           /\ AppendedText = Append(t, "\n")
                           /\ SuffixAfter(line, {"#"} \cup Whitespace, t)
              /\ kind \in {"bullets", "numbered"} =>
                    /\ Len(AppendedRequests) = 1
                    /\ ReqKind(AppendedRequests[1]) = "createParagraphBullets"
                    /\ AppendedText # <<>>
                    /\ AppendedText[Len(AppendedText)] = "\n"
                    /\ LET items ==
                               split(SubSeq(AppendedText, 1, Len(AppendedText) - 1))
                       IN  /\ Len(items) = i' - i
                           /\ \A k \in 1 .. Len(items) :
                                  SuffixAfter(lines[i + k],
                                              {"-", "*", "."} \cup Digits
                                                  \cup Whitespace,
                                              items[k])
              /\ (\E k \in 1 .. Len(AppendedRequests) :
                      ReqKind(AppendedRequests[k]) = "updateTextStyle")
                    => kind = "paragraph"]_vars

\* a heading and a bullet item, each holding a closed italic span, were
\* returned with their asterisks and without an updateTextStyle
InlineOnlyInParagraphsWitness ==
    /\ Returned
    /\ lines = << <<"#", "#", "\t", "*", "b", "*">>, <<"-", " ", "*", "a", "*">> >>
    /\ plain_text = <<"*", "b", "*", "\n", "*", "a", "*", "\n">>
    /\ Len(format_requests) = 2
    /\ \A r \in Requests : ReqKind(format_requests[r]) # "updateTextStyle"

\* the names of a mask
MaskNames(fields) == {fields[k] : k \in 1 .. Len(fields)}

\* the mask of an updateTextStyle names each attribute of its textStyle, once,
\* and nothing else
MaskMatchesStyle(u) ==
    /\ MaskNames(u.fields) = DOMAIN u.textStyle
    /\ Len(u.fields) = Cardinality(DOMAIN u.textStyle)

MaskOfInstruction(r) ==
    /\ "updateTextStyle" \in DOMAIN r =>
          LET u == r.updateTextStyle
          IN  /\ MaskMatchesStyle(u)
              /\ "bold" \in DOMAIN u.textStyle /\ tool # "format_google_doc_text" =>
                    u.fields = <<"bold">>
              /\ "italic" \in DOMAIN u.textStyle /\ tool # "format_google_doc_text" =>
                    u.fields = <<"italic">>
              /\ "link" \in DOMAIN u.textStyle =>
                    u.fields = <<"link", "foregroundColor">>
    /\ "updateParagraphStyle" \in DOMAIN r =>
          /\ r.updateParagraphStyle.fields = <<"namedStyleType">>
          /\ DOMAIN r.updateParagraphStyle.paragraphStyle = {"namedStyleType"}

\* C20: every updateTextStyle of process_inline_markdown has a mask naming
\* exactly the attributes of its textStyle (bold; italic; link and
\* foregroundColor), every updateParagraphStyle has the mask namedStyleType,
\* and the request format_google_doc_text sends has a mask naming exactly the
\* attributes it set.
FieldsMaskMatchesAttributes ==
    /\ \A k \in 1 .. Len(inline_requests) : MaskOfInstruction(inline_requests[k])
    /\ \A k \in 1 .. Len(format_requests) : MaskOfInstruction(format_requests[k])
    /\ \A c \in 1 .. Len(api_calls) :
          "requests" \in DOMAIN api_calls[c] =>
              \A k \in 1 .. Len(api_calls[c].requests) :
                  MaskOfInstruction(api_calls[c].requests[k])

\* format_google_doc_text applied bold, a font size and a colour in one request
FieldsMaskMatchesAttributesWitness ==
    /\ entry = "tool"
    /\ tool = "format_google_doc_text"
    /\ pc = "done"
    /\ response = "Applied formatting"
    /\ Len(api_calls) = 1
    /\ api_calls[1].requests[1].updateTextStyle.fields =
           <<"bold", "fontSize", "foregroundColor">>
    /\ api_calls[1].requests[1].updateTextStyle.textStyle.foregroundColor =
           [color |-> [rgbColor |-> [red |-> 255, green |-> 0, blue |-> 128]]]

Newlines(t) == Cardinality({p \in 1 .. Len(t) : t[p] = "\n"})

\* C21: every source line yields exactly one newline: after i lines the
\* buffer holds i newlines and ends with one, and the returned text holds
\* len(lines) newlines, the number of newlines of the input plus one, also
\* when the last line of the input has no newline.
OneNewlinePerLine ==
    entry = "parse" =>
        /\ Newlines(plain_text) = i
        /\ i > 0 => (plain_text # <<>> /\ plain_text[Len(plain_text)] = "\n")
        /\ pc = "done" =>
              /\ i = Len(lines)
              /\ Newlines(plain_text) = Newlines(markdown) + 1
              /\ plain_text # <<>>
              /\ plain_text[Len(plain_text)] = "\n"

\* the mixed document, whose last line `* b` has no newline, was returned
\* with one newline for each of its four lines
OneNewlinePerLineWitness ==
    /\ Returned
    /\ markdown = ExMixed
    /\ markdown[Len(markdown)] # "\n"
    /\ Len(lines) = 4
    /\ Newlines(plain_text) = 4
    /\ plain_text[Len(plain_text)] = "\n"

\* the value between the quotes of a query `name contains '<value>'`
QueryLiteral(q) == SubSeq(q, Len(NameContains) + 1, Len(q) - 1)

\* how many backslashes stand immediately before position p of t
BackslashesBefore(t, p) ==
    Cardinality({k \in 1 .. (p - 1) : \A j \in 1 .. k : t[p - j] = "\\"})

\* C22 as stated: in the value search_files embeds between single quotes in
\* the Drive query, every single quote is preceded by an odd number of
\* backslashes, so that none of them terminates the quoted literal.
QuotesAreEscaped ==
    \A c \in 1 .. Len(api_calls) :
        (tool = "search_files" /\ "q" \in DOMAIN api_calls[c]) =>
            LET v == QueryLiteral(api_calls[c].q)
            IN  \A p \in 1 .. Len(v) :
                    v[p] = "'" => BackslashesBefore(v, p) % 2 = 1

\* 10 to 100 characters, each an ASCII letter, digit, underscore or hyphen
WellFormedId(id_str) ==
    /\ Len(id_str) >= 10
    /\ Len(id_str) <= 100
    /\ \A p \in 1 .. Len(id_str) : id_str[p] \in IdChars

\* C23 as stated: validate_google_id returns True exactly for the strings of
\* 10 to 100 characters that are all ASCII letters, digits, underscores or
\* hyphens, and False for every other value, one with a trailing newline
\* included: format_google_doc_text goes past its validation exactly with
\* such a doc_id.
ValidatesExactlyWellFormedIds ==
    (entry = "tool" /\ tool = "format_google_doc_text" /\ pc # "start") =>
        /\ validate_google_id(args.doc_id) <=> WellFormedId(args.doc_id)
        /\ (response = "Error: Invalid document ID format")
               <=> ~WellFormedId(args.doc_id)

\* C24: every instruction of parse_markdown_to_doc_requests has a non-empty
\* range, startIndex < endIndex, and of two consecutive instructions the
\* earlier ends at or before the start of the later, so all ranges are
\* pairwise disjoint.
RangesNeverOverlap ==
    entry = "parse" =>
        /\ \A r \in Requests :
              ReqStart(format_requests[r]) < ReqEnd(format_requests[r])
        /\ \A r \in Requests :
              r + 1 \in Requests =>
                  ReqEnd(format_requests[r]) <= ReqStart(format_requests[r + 1])
        /\ \A r, q \in Requests :
              r < q =>
                  ReqEnd(format_requests[r]) <= ReqStart(format_requests[q])

\* a document of a heading, a line with two spans and a bullet item was
\* returned with four instructions
RangesNeverOverlapWitness ==
    /\ Returned
    /\ lines = << <<"#", " ", "a">>,
                  <<"*", "a", "*", " ", "*", "*", "b", "*", "*">>,
                  <<"-", " ", "a">> >>
    /\ Len(format_requests) = 4
    /\ ReqEnd(format_requests[2]) < ReqStart(format_requests[3])
    /\ ReqEnd(format_requests[3]) < ReqStart(format_requests[4])

\* the identifier arguments of the handlers
IdArgs == {"file_id", "folder_id", "new_folder_id", "parent_id", "doc_id"}

\* the identifier a[k] was supplied and fails validate_google_id
FailsValidation(a, k) ==
    /\ Has(a, k)
    /\ a[k] # <<>>
    /\ ~validate_google_id(a[k])

InvalidIdResponses ==
    {"Error: Invalid file ID format", "Error: Invalid folder ID format",
     "Error: Invalid parent folder ID format",
     "Error: Invalid document ID format"}

\* C25: when an identifier supplied to a handler fails validate_google_id,
\* the handler issues no Drive or Docs request at all and returns an
\* "Invalid ... ID format" error text; markdown_to_google_doc creates no
\* document when its folder_id is invalid.
ValidationPrecedesRequests ==
    (entry = "tool" /\ \E k \in IdArgs : FailsValidation(args, k)) =>
        /\ api_calls = <<>>
        /\ pc \in {"start", "done"}
        /\ pc = "done" => response \in InvalidIdResponses

\* move_file was given a valid file and an invalid folder and returned the
\* folder error without a request
ValidationPrecedesRequestsWitness ==
    /\ entry = "tool"
    /\ tool = "move_file"
    /\ pc = "done"
    /\ validate_google_id(args.file_id)
    /\ FailsValidation(args, "new_folder_id")
    /\ response = "Error: Invalid folder ID format"
    /\ api_calls = <<>>

====
